---- MODULE Spec2Model ----
(***************************************************************************)
(* Model of the WeatherLink binary record codec of WLKtoJSONConverter.py:  *)
(* the packed timestamp codec, the CRC-16 checksum, and the decoders of    *)
(* the header, daily summary, archive interval (stored and download) and   *)
(* LOOP2 records.  Byte buffers are sequences of 0..255; struct formats    *)
(* are field tables of (offset, width, code) read little-endian.           *)
(***************************************************************************)
EXTENDS Integers, Sequences, FiniteSets, TLC

VARIABLES
    d,            \* timestamp codec: the datetime handed to the encoder
    timestamp,    \* timestamp codec: the packed 32-bit value
    date,         \* timestamp codec: outcome of convert_timestamp_to_datetime
    ts_pc,        \* timestamp codec: "dt" -> "packed" -> "unpacked"
    data_bytes,   \* checksum: the bytes handed to calculate_weatherlink_crc
    crc,          \* checksum: the CRC of data_bytes
    crc_pc,       \* checksum: "msg" -> "framed" -> "corrupt"
    kind,         \* decoder: which load_* entry point is invoked
    stream,       \* decoder: the content behind the file handle / socket file
    file_pos,     \* decoder: the read position of the handle
    result,       \* decoder: outcome of the call
    dec_pc,       \* decoder: "call" -> "done"
    fn_args,      \* function call: the arguments of one call of a pure function
    fn_ret,       \* function call: the value the call returned
    fn_pc,        \* function call: "call" -> the name of the function that returned
    fn_locals     \* function call: the local variables of a call that is in its loop

ts_vars  == <<d, timestamp, date, ts_pc>>
crc_vars == <<data_bytes, crc, crc_pc>>
dec_vars == <<kind, stream, file_pos, result, dec_pc>>
fn_vars  == <<fn_args, fn_ret, fn_pc, fn_locals>>
vars     == <<d, timestamp, date, ts_pc, data_bytes, crc, crc_pc,
              kind, stream, file_pos, result, dec_pc, fn_args, fn_ret, fn_pc,
              fn_locals>>

(***************************************************************************)
(* Bounds of the model.                                                    *)
(***************************************************************************)
YearSpan  == 2      \* datetimes are drawn from 1999 .. 1999+YearSpan (and two later years)
MaxMsgLen == 3      \* checksum messages have at most this many bytes
MaxDelta  == 1      \* streams are up to this many bytes shorter/longer than a record
DegreeMargin == 40  \* from_degrees is called on -DegreeMargin .. 360+DegreeMargin

(***************************************************************************)
(* Integer helpers: Python's >>, <<, &, ^ and int() on bounded integers.   *)
(***************************************************************************)
Min(a, b) == IF a < b THEN a ELSE b

\* int(num / den) for den > 0: truncation toward zero
IntTrunc(num, den) == IF num >= 0 THEN num \div den ELSE -((-num) \div den)

RECURSIVE BitXor(_, _)
BitXor(a, b) ==
    IF a = 0 THEN b
    ELSE IF b = 0 THEN a
    ELSE (((a % 2) + (b % 2)) % 2) + 2 * BitXor(a \div 2, b \div 2)

RECURSIVE BitAnd(_, _)
BitAnd(a, b) ==
    IF a = 0 \/ b = 0 THEN 0
    ELSE ((a % 2) * (b % 2)) + 2 * BitAnd(a \div 2, b \div 2)

(***************************************************************************)
(* Python values.  Every value is a record tagged by its type in field t:  *)
(* None, int, bool, bytes, Decimal, enumeration members, datetime/date,    *)
(* and the exceptions a call can end in.                                   *)
(***************************************************************************)
None == [t |-> "None"]
PyInt(v) == [t |-> "int", v |-> v]
Bool(v) == [t |-> "bool", v |-> v]
Bytes(v) == [t |-> "bytes", v |-> v]
Raise(e) == [t |-> e]

Exceptions == {"struct.error", "AssertionError", "ValueError", "KeyError"}
IsRaise(x) == x.t \in Exceptions

\* truth value of a Python object in an `if`: None, 0 and a zero Decimal are
\* false, enumeration members (plain Enum) are always true
Truthy(x) ==
    IF x.t = "None" THEN FALSE
    ELSE IF x.t = "int" THEN x.v # 0
    ELSE IF x.t = "Decimal" THEN x.coef # <<>>
    ELSE TRUE

(***************************************************************************)
(* datetime.datetime: the constructor validates its arguments.             *)
(***************************************************************************)
IsLeap(year) == (year % 4 = 0 /\ year % 100 # 0) \/ year % 400 = 0

DaysInMonth(year, month) ==
    IF month = 2 THEN (IF IsLeap(year) THEN 29 ELSE 28)
    ELSE IF month \in {4, 6, 9, 11} THEN 30 ELSE 31

datetime_unchecked(year, month, day, hour, minute) ==
    [t |-> "datetime", year |-> year, month |-> month, day |-> day,
     hour |-> hour, minute |-> minute]

\* datetime.datetime(year, month, day, hour, minute): ValueError outside the calendar
datetime(year, month, day, hour, minute) ==
    IF /\ year \in 1..9999
       /\ month \in 1..12
       /\ day >= 1 /\ day <= DaysInMonth(year, month)
       /\ hour \in 0..23
       /\ minute \in 0..59
    THEN [t |-> "datetime", year |-> year, month |-> month, day |-> day,
          hour |-> hour, minute |-> minute]
    ELSE [t |-> "ValueError"]

(***************************************************************************)
(* Timestamp codec.                                                        *)
(***************************************************************************)
convert_datetime_to_timestamp(dt) ==
    IF dt.t = "datetime"
    THEN ((dt.day + (dt.month * 32) + ((dt.year - 2000) * 512)) * 65536)
         + (dt.minute + (dt.hour * 100))
    ELSE dt

convert_timestamp_to_datetime_swapped(ts) ==
    LET date_part == ts \div 65536
        time_part == ts - (date_part * 65536)
        year   == IntTrunc(date_part + 2000 * 512, 512)
        month  == IntTrunc(date_part - ((year - 2000) * 512), 32)
        day    == date_part - ((year - 2000) * 512) - (month * 32)
        hour   == IntTrunc(time_part, 60)
        minute == time_part - (hour * 60)
    IN  datetime(year, month, day, hour, minute)

convert_timestamp_to_datetime(ts) ==
    LET date_part == ts \div 65536
        time_part == ts - (date_part * 65536)
        year   == IntTrunc(date_part + 2000 * 512, 512)
        month  == IntTrunc(date_part - ((year - 2000) * 512), 32)
        day    == date_part - ((year - 2000) * 512) - (month * 32)
        hour   == IntTrunc(time_part, 100)
        minute == time_part - (hour * 100)
    IN  datetime(year, month, day, hour, minute)

(***************************************************************************)
(* Checksum.                                                               *)
(***************************************************************************)
WEATHERLINK_CRC_TABLE == <<
    0, 4129, 8258, 12387, 16516, 20645, 24774, 28903,
    33032, 37161, 41290, 45419, 49548, 53677, 57806, 61935,
    4657, 528, 12915, 8786, 21173, 17044, 29431, 25302,
    37689, 33560, 45947, 41818, 54205, 50076, 62463, 58334,
    9314, 13379, 1056, 5121, 25830, 29895, 17572, 21637,
    42346, 46411, 34088, 38153, 58862, 62927, 50604, 54669,
    13907, 9842, 5649, 1584, 30423, 26358, 22165, 18100,
    46939, 42874, 38681, 34616, 63455, 59390, 55197, 51132,
    18628, 22757, 26758, 30887, 2112, 6241, 10242, 14371,
    51660, 55789, 59790, 63919, 35144, 39273, 43274, 47403,
    23285, 19156, 31415, 27286, 6769, 2640, 14899, 10770,
    56317, 52188, 64447, 60318, 39801, 35672, 47931, 43802,
    27814, 31879, 19684, 23749, 11298, 15363, 3168, 7233,
    60846, 64911, 52716, 56781, 44330, 48395, 36200, 40265,
    32407, 28342, 24277, 20212, 15891, 11826, 7761, 3696,
    65439, 61374, 57309, 53244, 48923, 44858, 40793, 36728,
    37256, 33193, 45514, 41451, 53516, 49453, 61774, 57711,
    4224, 161, 12482, 8419, 20484, 16421, 28742, 24679,
    33721, 37784, 41979, 46042, 49981, 54044, 58239, 62302,
    689, 4752, 8947, 13010, 16949, 21012, 25207, 29270,
    46570, 42443, 38312, 34185, 62830, 58703, 54572, 50445,
    13538, 9411, 5280, 1153, 29798, 25671, 21540, 17413,
    42971, 47098, 34713, 38840, 59231, 63358, 50973, 55100,
    9939, 14066, 1681, 5808, 26199, 30326, 17941, 22068,
    55628, 51565, 63758, 59695, 39368, 35305, 47498, 43435,
    22596, 18533, 30726, 26663, 6336, 2273, 14466, 10403,
    52093, 56156, 60223, 64286, 35833, 39896, 43963, 48026,
    19061, 23124, 27191, 31254, 2801, 6864, 10931, 14994,
    64814, 60687, 56684, 52557, 48554, 44427, 40424, 36297,
    31782, 27655, 23652, 19525, 15522, 11395, 7392, 3265,
    61215, 65342, 53085, 57212, 44955, 49082, 36825, 40952,
    28183, 32310, 20053, 24180, 11923, 16050, 3793, 7920
>>

crc_fold_seven_bits(c, byte) ==
    BitXor(WEATHERLINK_CRC_TABLE[BitXor(BitAnd(c \div 256, 255), BitAnd(byte, 127)) + 1],
           BitAnd(c * 256, 65280))

\* one iteration of the loop: table[((crc >> 8) & 0xFF) ^ byte] ^ ((crc << 8) & 0xFF00)
crc_fold(c, byte) ==
    BitXor(WEATHERLINK_CRC_TABLE[BitXor(BitAnd(c \div 256, 255), byte) + 1],
           BitAnd(c * 256, 65280))

\* the for loop over bytes[lo..hi] in order, entered with crc = c: the
\* iterations over the first half, then those over the second half
RECURSIVE crc_loop(_, _, _, _)
crc_loop(c, bytes, lo, hi) ==
    IF lo > hi THEN c
    ELSE IF lo = hi THEN crc_fold(c, bytes[lo])
    ELSE LET mid == (lo + hi) \div 2
             half == crc_loop(c, bytes, lo, mid)
         IN  CASE half \in 0..65535 -> crc_loop(half, bytes, mid + 1, hi)

calculate_weatherlink_crc(bytes) == crc_loop(0, bytes, 1, Len(bytes))


(***************************************************************************)
(* decimal.Decimal.  A Decimal is sign, coefficient and exponent; the      *)
(* coefficient is kept as base-1000 limbs (least significant first, no     *)
(* leading zero limb) so that products of 16-bit raw values with the       *)
(* 6-digit inch/centimeter ratio stay exact.  exp counts the digits after  *)
(* the decimal point.  No product here exceeds the 28-digit context        *)
(* precision, so multiplication is exact.                                  *)
(***************************************************************************)
Abs(n) == IF n < 0 THEN -n ELSE n

RECURSIVE Limbs(_)
Limbs(n) == IF n = 0 THEN <<>> ELSE <<n % 1000>> \o Limbs(n \div 1000)

RECURSIVE LimbMul(_, _, _)
LimbMul(limbs, n, carry) ==
    IF limbs = <<>> THEN Limbs(carry)
    ELSE LET p == Head(limbs) * n + carry
         IN  <<p % 1000>> \o LimbMul(Tail(limbs), n, p \div 1000)

\* value of a coefficient of at most two limbs
LimbValue(limbs) ==
    IF limbs = <<>> THEN 0
    ELSE IF Len(limbs) = 1 THEN limbs[1]
    ELSE limbs[1] + 1000 * limbs[2]

Decimal(n) == [t |-> "Decimal", sign |-> IF n < 0 THEN 1 ELSE 0,
               coef |-> Limbs(Abs(n)), exp |-> 0]

DecimalStr(n, e) == [t |-> "Decimal", sign |-> 0, coef |-> Limbs(n), exp |-> e]

\* a * b for Decimals, b with a coefficient below 10^6
DecMul(a, b) ==
    LET n == LimbValue(b.coef)
    IN  [t |-> "Decimal",
         sign |-> (a.sign + b.sign) % 2,
         coef |-> IF n = 0 THEN <<>> ELSE LimbMul(a.coef, n, 0),
         exp |-> a.exp + b.exp]

_TENTHS == DecimalStr(1, 1)
_HUNDREDTHS == DecimalStr(1, 2)
_THOUSANDTHS == DecimalStr(1, 3)
_INCHES_PER_CENTIMETER == DecimalStr(393701, 6)

STRAIGHT_NUMBER(x) == PyInt(x)
STRAIGHT_DECIMAL(x) == Decimal(x)
TENTHS(x) == DecMul(Decimal(x), _TENTHS)
HUNDREDTHS(x) == DecMul(Decimal(x), _HUNDREDTHS)
THOUSANDTHS(x) == DecMul(Decimal(x), _THOUSANDTHS)

DASH_LARGE == 32767
DASH_LARGE_NEGATIVE == -32768
DASH_ZERO == 0
DASH_SMALL == 255

(***************************************************************************)
(* Enumerations.                                                           *)
(***************************************************************************)
BarometricTrendValues == {-60, -20, 0, 20, 60}

\* BarometricTrend(x): lookup by value, ValueError for anything else (None included)
BarometricTrend(x) ==
    IF x.t = "int" /\ x.v \in BarometricTrendValues
    THEN [t |-> "BarometricTrend", value |-> x.v]
    ELSE Raise("ValueError")

WindDirectionNames ==
    <<"NS", "N", "NNE", "NE", "ENE", "E", "ESE", "SE", "SSE",
      "S", "SSW", "SW", "WSW", "W", "WNW", "NW", "NNW">>

\* the member with this value; degrees is kept in tenths of a degree
\* (value * 22.5, and 360.0 in place of 0.0)
WindDirectionMember(value) ==
    [t |-> "WindDirection", name |-> WindDirectionNames[value + 2], value |-> value,
     degrees |-> IF value * 225 = 0 THEN 3600 ELSE value * 225]

\* WindDirection(x): lookup by value
WindDirection(x) ==
    IF x \in -1..15 THEN WindDirectionMember(x) ELSE Raise("ValueError")

FROM_DEGREE_MAP == <<
    0, 0, 0, 0, 0, 0, 0, 0, 0, 0, 0, 1, 1, 1, 1, 1, 1, 1, 1, 1, 1, 1, 1, 1,
    1, 1, 1, 1, 1, 1, 1, 1, 1, 1, 2, 2, 2, 2, 2, 2, 2, 2, 2, 2, 2, 2, 2, 2,
    2, 2, 2, 2, 2, 2, 2, 2, 3, 3, 3, 3, 3, 3, 3, 3, 3, 3, 3, 3, 3, 3, 3, 3,
    3, 3, 3, 3, 3, 3, 3, 4, 4, 4, 4, 4, 4, 4, 4, 4, 4, 4, 4, 4, 4, 4, 4, 4,
    4, 4, 4, 4, 4, 5, 5, 5, 5, 5, 5, 5, 5, 5, 5, 5, 5, 5, 5, 5, 5, 5, 5, 5,
    5, 5, 5, 5, 6, 6, 6, 6, 6, 6, 6, 6, 6, 6, 6, 6, 6, 6, 6, 6, 6, 6, 6, 6,
    6, 6, 7, 7, 7, 7, 7, 7, 7, 7, 7, 7, 7, 7, 7, 7, 7, 7, 7, 7, 7, 7, 7, 7,
    7, 8, 8, 8, 8, 8, 8, 8, 8, 8, 8, 8, 8, 8, 8, 8, 8, 8, 8, 8, 8, 8, 8, 9,
    9, 9, 9, 9, 9, 9, 9, 9, 9, 9, 9, 9, 9, 9, 9, 9, 9, 9, 9, 9, 9, 9, 10, 10,
    10, 10, 10, 10, 10, 10, 10, 10, 10, 10, 10, 10, 10, 10, 10, 10, 10, 10, 10, 10, 11, 11, 11, 11,
    11, 11, 11, 11, 11, 11, 11, 11, 11, 11, 11, 11, 11, 11, 11, 11, 11, 11, 11, 12, 12, 12, 12, 12,
    12, 12, 12, 12, 12, 12, 12, 12, 12, 12, 12, 12, 12, 12, 12, 12, 12, 13, 13, 13, 13, 13, 13, 13,
    13, 13, 13, 13, 13, 13, 13, 13, 13, 13, 13, 13, 13, 13, 13, 13, 14, 14, 14, 14, 14, 14, 14, 14,
    14, 14, 14, 14, 14, 14, 14, 14, 14, 14, 14, 14, 14, 14, 15, 15, 15, 15, 15, 15, 15, 15, 15, 15,
    15, 15, 15, 15, 15, 15, 15, 15, 15, 15, 15, 15, 15, 0, 0, 0, 0, 0, 0, 0, 0, 0, 0, 0
>>

from_degrees_from_zero(degrees) ==
    IF degrees < 0 \/ degrees > 360 THEN None
    ELSE IF degrees \notin DOMAIN FROM_DEGREE_MAP THEN Raise("KeyError")
    ELSE WindDirectionMember(FROM_DEGREE_MAP[degrees])

\* if degrees < 1 or degrees > 360: return None; else the dictionary lookup
from_degrees(degrees) ==
    IF degrees < 1 \/ degrees > 360 THEN None
    ELSE IF degrees \notin DOMAIN FROM_DEGREE_MAP THEN Raise("KeyError")
    ELSE WindDirectionMember(FROM_DEGREE_MAP[degrees])

RainCollectorTypeSerialValues == {0, 16, 32}

RainCollectorTypeSerial(x) ==
    IF x \in RainCollectorTypeSerialValues
    THEN [t |-> "RainCollectorTypeSerial", value |-> x]
    ELSE Raise("ValueError")

RainCollectorTypeDatabaseValues == {0, 4096, 8192, 12288, 24576}

RainCollectorTypeDatabase(x) ==
    IF x \in RainCollectorTypeDatabaseValues
    THEN [t |-> "RainCollectorTypeDatabase", value |-> x]
    ELSE Raise("ValueError")

\* member.clicks_to_inches(c), c an int
clicks_to_inches(member, c) ==
    IF member.t = "RainCollectorTypeSerial"
    THEN CASE member.value = 0  -> DecMul(Decimal(c), _HUNDREDTHS)
           [] member.value = 16 ->
                DecMul(DecMul(DecMul(Decimal(c), _HUNDREDTHS), _INCHES_PER_CENTIMETER), Decimal(2))
           [] member.value = 32 ->
                DecMul(DecMul(Decimal(c), _HUNDREDTHS), _INCHES_PER_CENTIMETER)
    ELSE CASE member.value = 0     -> DecMul(_TENTHS, Decimal(c))
           [] member.value = 4096  -> DecMul(_HUNDREDTHS, Decimal(c))
           [] member.value = 8192  ->
                DecMul(DecMul(DecMul(_HUNDREDTHS, _INCHES_PER_CENTIMETER), Decimal(c)), Decimal(2))
           [] member.value = 12288 ->
                DecMul(DecMul(_TENTHS, _INCHES_PER_CENTIMETER), Decimal(c))
           [] member.value = 24576 ->
                DecMul(DecMul(_HUNDREDTHS, _INCHES_PER_CENTIMETER), Decimal(c))

(***************************************************************************)
(* struct: a format is its size (calcsize) and its fields, each a byte     *)
(* offset, a width and a format code; pad bytes ('x') only move offsets.   *)
(* All formats here are '=' or '<': little-endian, no alignment.           *)
(***************************************************************************)
F(off, width, code) == [off |-> off, width |-> width, code |-> code]

UnpackField(buf, f) ==
    LET b1 == buf[f.off + 1]
        u2 == buf[f.off + 1] + 256 * buf[f.off + 2]
    IN  CASE f.code = "B" -> b1
          [] f.code = "b" -> IF b1 >= 128 THEN b1 - 256 ELSE b1
          [] f.code = "H" -> u2
          [] f.code = "h" -> IF u2 >= 32768 THEN u2 - 65536 ELSE u2
          [] f.code = "l" ->
                u2 + 65536 * buf[f.off + 3]
                + 16777216 * (IF buf[f.off + 4] >= 128 THEN buf[f.off + 4] - 256
                              ELSE buf[f.off + 4])
          [] f.code \in {"s", "c"} -> SubSeq(buf, f.off + 1, f.off + f.width)

\* struct.unpack_from(format, buf): struct.error when buf is shorter than the format
struct_unpack_from(format, buf) ==
    IF Len(buf) < format.size THEN Raise("struct.error")
    ELSE [t |-> "tuple",
          v |-> [i \in 1..Len(format.fields) |-> UnpackField(buf, format.fields[i])]]

Read_padded(content, at, n) ==
    [i \in 1..n |-> IF at + i <= Len(content) THEN content[at + i] ELSE 0]

\* file_handle.read(n) with the handle at byte position at: at most n bytes
Read(content, at, n) == SubSeq(content, at + 1, Min(at + n, Len(content)))

(***************************************************************************)
(* Attribute maps: (name, transform, sentinel) by field index.  A sentinel *)
(* of None in the source never equals a raw value: the empty set here.     *)
(***************************************************************************)
A(name, transform, sentinel) ==
    [name |-> name, transform |-> transform, sentinel |-> sentinel]

NoSentinel == {}

ApplyTransform(transform, v) ==
    CASE transform = "STRAIGHT_NUMBER"  -> STRAIGHT_NUMBER(v)
      [] transform = "STRAIGHT_DECIMAL" -> STRAIGHT_DECIMAL(v)
      [] transform = "TENTHS"           -> TENTHS(v)
      [] transform = "HUNDREDTHS"       -> HUNDREDTHS(v)
      [] transform = "THOUSANDTHS"      -> THOUSANDTHS(v)
      [] transform = "WindDirection"    -> WindDirection(v)

\* if v == MAP[i][2]: None, else MAP[i][1](v)
AttributeValue(attr, v) ==
    IF v \in attr.sentinel THEN None ELSE ApplyTransform(attr.transform, v)

\* the loop over enumerate(arguments) that fills kwargs, skipping the indexes
\* in skip (verification map and special handling); indexes count from 0
Kwargs(arguments, attribute_map, skip) ==
    LET idx == {i \in 0..(Len(arguments) - 1) : i \notin skip /\ i < Len(attribute_map)}
        names == {attribute_map[i + 1].name : i \in idx}
    IN  [k \in names |->
            LET i == CHOOSE j \in idx : attribute_map[j + 1].name = k
            IN  AttributeValue(attribute_map[i + 1], arguments[i + 1])]

AnyRaise(kwargs) == \E k \in DOMAIN kwargs : IsRaise(kwargs[k])

Verified_unchecked(arguments, verification_map) == TRUE

\* for k, v in VERIFICATION_MAP: if arguments[k] != v: raise AssertionError
Verified(arguments, verification_map) ==
    \A k \in DOMAIN verification_map : arguments[k + 1] = verification_map[k]

(***************************************************************************)
(* datetime arithmetic: datetime + timedelta(minutes=m).                   *)
(***************************************************************************)
RECURSIVE AddDays(_, _, _, _)
AddDays(year, month, day, n) ==
    IF n = 0 THEN <<year, month, day>>
    ELSE IF n > 0
    THEN IF day < DaysInMonth(year, month) THEN AddDays(year, month, day + 1, n - 1)
         ELSE IF month < 12 THEN AddDays(year, month + 1, 1, n - 1)
         ELSE AddDays(year + 1, 1, 1, n - 1)
    ELSE IF day > 1 THEN AddDays(year, month, day - 1, n + 1)
         ELSE IF month > 1
         THEN AddDays(year, month - 1, DaysInMonth(year, month - 1), n + 1)
         ELSE AddDays(year - 1, 12, 31, n + 1)

AddMinutes(dt, minutes) ==
    IF IsRaise(dt) THEN dt
    ELSE LET total == dt.hour * 60 + dt.minute + minutes
             ymd == AddDays(dt.year, dt.month, dt.day, total \div 1440)
         IN  datetime(ymd[1], ymd[2], ymd[3], (total % 1440) \div 60, (total % 1440) % 60)

\* datetime.date(year, month, day)
pydate(year, month, day) ==
    IF year \in 1..9999 /\ month \in 1..12 /\ day >= 1 /\ day <= DaysInMonth(year, month)
    THEN [t |-> "date", year |-> year, month |-> month, day |-> day]
    ELSE Raise("ValueError")

Float10(tenths) == [t |-> "float", tenths |-> tenths]

(***************************************************************************)
(* Header and DayIndex.                                                    *)
(***************************************************************************)
VERSION_CODE_AND_COUNT_LENGTH == 20
DAY_INDEX_LENGTH == 6

VERSION_CODE_AND_COUNT_FORMAT ==
    [size |-> 20, fields |-> <<
    F(0, 16, "s"), F(16, 4, "l")
    >>]

DAY_INDEX_FORMAT ==
    [size |-> 6, fields |-> <<
    F(0, 2, "h"), F(2, 4, "l")
    >>]

DayIndex_load_from_wlk(content, pos) ==
    LET a == struct_unpack_from(DAY_INDEX_FORMAT, Read(content, pos, DAY_INDEX_LENGTH))
    IN  IF IsRaise(a) THEN a
        ELSE [t |-> "DayIndex", record_count |-> a.v[1], start_index |-> a.v[2]]

Header_load_from_wlk(content, pos) ==
    LET version_and_count ==
            struct_unpack_from(VERSION_CODE_AND_COUNT_FORMAT,
                               Read(content, pos, VERSION_CODE_AND_COUNT_LENGTH))
        day_indexes ==
            [i \in 1..32 |->
                DayIndex_load_from_wlk(content,
                    pos + VERSION_CODE_AND_COUNT_LENGTH + (i - 1) * DAY_INDEX_LENGTH)]
    IN  IF IsRaise(version_and_count) THEN version_and_count
        ELSE IF \E i \in 1..32 : IsRaise(day_indexes[i]) THEN Raise("struct.error")
        ELSE [t |-> "Header",
              version_code |-> Bytes(version_and_count.v[1]),
              record_count |-> version_and_count.v[2],
              day_indexes |-> day_indexes]

(***************************************************************************)
(* DailySummary.                                                           *)
(***************************************************************************)
DAILY_SUMMARY_LENGTH == 88 * 2

DAILY_SUMMARY_FORMAT ==
    [size |-> 176, fields |-> <<
    F(0, 1, "b"), F(2, 2, "h"), F(4, 2, "h"), F(6, 2, "h"),
    F(8, 2, "h"), F(10, 2, "h"), F(12, 2, "h"), F(14, 2, "h"),
    F(16, 2, "h"), F(18, 2, "h"), F(20, 2, "h"), F(22, 2, "h"),
    F(24, 2, "h"), F(26, 2, "h"), F(28, 2, "h"), F(30, 2, "h"),
    F(32, 2, "h"), F(34, 2, "h"), F(36, 2, "h"), F(38, 2, "h"),
    F(40, 2, "h"), F(42, 2, "h"), F(44, 2, "h"), F(46, 2, "h"),
    F(48, 2, "h"), F(50, 2, "h"), F(52, 1, "b"), F(53, 1, "b"),
    F(54, 2, "h"), F(56, 2, "h"), F(88, 1, "b"), F(92, 2, "h"),
    F(102, 2, "h"), F(104, 2, "h"), F(106, 2, "h"), F(112, 2, "h"),
    F(114, 2, "h"), F(116, 2, "h"), F(118, 2, "h"), F(120, 2, "h"),
    F(122, 2, "h"), F(163, 2, "h")
    >>]

DAILY_SUMMARY_VERIFICATION_MAP == (0 :> 2) @@ (30 :> 3)

DAILY_SUMMARY_ATTRIBUTE_MAP == <<
    A("ds1_version", "STRAIGHT_NUMBER", NoSentinel),
    A("minutes", "STRAIGHT_NUMBER", NoSentinel),
    A("temperature_outside_high", "TENTHS", {DASH_LARGE_NEGATIVE}),
    A("temperature_outside_low", "TENTHS", {DASH_LARGE}),
    A("temperature_inside_high", "TENTHS", {DASH_LARGE_NEGATIVE}),
    A("temperature_inside_low", "TENTHS", {DASH_LARGE}),
    A("temperature_outside_average", "TENTHS", {DASH_LARGE}),
    A("temperature_inside_average", "TENTHS", {DASH_LARGE}),
    A("wind_chill_high", "TENTHS", {DASH_LARGE_NEGATIVE}),
    A("wind_chill_low", "TENTHS", {DASH_LARGE}),
    A("dew_point_high", "TENTHS", {DASH_LARGE_NEGATIVE}),
    A("dew_point_low", "TENTHS", {DASH_LARGE}),
    A("wind_chill_average", "TENTHS", {DASH_LARGE}),
    A("dew_point_average", "TENTHS", {DASH_LARGE}),
    A("humidity_outside_high", "TENTHS", {DASH_SMALL}),
    A("humidity_outside_low", "TENTHS", {DASH_SMALL}),
    A("humidity_inside_high", "TENTHS", {DASH_SMALL}),
    A("humidity_inside_low", "TENTHS", {DASH_SMALL}),
    A("humidity_outside_average", "TENTHS", {DASH_SMALL}),
    A("barometric_pressure_high", "THOUSANDTHS", {DASH_ZERO}),
    A("barometric_pressure_low", "THOUSANDTHS", {DASH_ZERO}),
    A("barometric_pressure_average", "THOUSANDTHS", {DASH_ZERO}),
    A("wind_speed_high", "TENTHS", {DASH_ZERO}),
    A("wind_speed_average", "TENTHS", {DASH_ZERO}),
    A("wind_daily_run", "TENTHS", {DASH_ZERO}),
    A("wind_speed_high_10_minute_average", "TENTHS", {DASH_LARGE_NEGATIVE}),
    A("wind_speed_high_direction", "WindDirection", {DASH_SMALL}),
    A("wind_speed_high_10_minute_average_direction", "WindDirection", {DASH_SMALL}),
    A("rain_total", "THOUSANDTHS", NoSentinel),
    A("rain_rate_high", "HUNDREDTHS", NoSentinel),
    A("ds2_version", "STRAIGHT_NUMBER", NoSentinel),
    A("total_wind_packets", "STRAIGHT_NUMBER", {DASH_LARGE_NEGATIVE}),
    A("heat_index_high", "TENTHS", {DASH_LARGE_NEGATIVE}),
    A("heat_index_low", "TENTHS", {DASH_LARGE}),
    A("heat_index_average", "TENTHS", {DASH_LARGE}),
    A("thw_index_high", "TENTHS", {DASH_LARGE_NEGATIVE}),
    A("thw_index_low", "TENTHS", {DASH_LARGE}),
    A("integrated_heating_degree_days", "TENTHS", {DASH_ZERO}),
    A("temperature_wet_bulb_high", "TENTHS", {DASH_LARGE_NEGATIVE}),
    A("temperature_wet_bulb_low", "TENTHS", {DASH_LARGE}),
    A("temperature_wet_bulb_average", "TENTHS", {DASH_LARGE}),
    A("integrated_cooling_degree_days", "TENTHS", {DASH_ZERO})
>>

DailySummary_load_from_wlk(content, pos, year, month, day) ==
    LET arguments == struct_unpack_from(DAILY_SUMMARY_FORMAT,
                                        Read(content, pos, DAILY_SUMMARY_LENGTH))
        kwargs == Kwargs(arguments.v, DAILY_SUMMARY_ATTRIBUTE_MAP,
                         DOMAIN DAILY_SUMMARY_VERIFICATION_MAP)
        dt == pydate(year, month, day)
    IN  IF IsRaise(arguments) THEN arguments
        ELSE IF ~Verified(arguments.v, DAILY_SUMMARY_VERIFICATION_MAP)
        THEN Raise("AssertionError")
        ELSE IF AnyRaise(kwargs) THEN Raise("ValueError")
        ELSE IF IsRaise(dt) THEN dt
        ELSE [t |-> "DailySummary", rec |-> kwargs @@ ("date" :> dt)]

(***************************************************************************)
(* ArchiveIntervalRecord, stored (.wlk) and download layouts.              *)
(***************************************************************************)
RECORD_LENGTH_WLK == 88
RECORD_LENGTH_DOWNLOAD == 52

RECORD_FORMAT_WLK ==
    [size |-> 88, fields |-> <<
    F(0, 1, "b"), F(1, 1, "b"), F(4, 2, "h"), F(6, 2, "h"),
    F(8, 2, "h"), F(10, 2, "h"), F(12, 2, "h"), F(14, 2, "h"),
    F(16, 2, "h"), F(18, 2, "h"), F(20, 2, "H"), F(22, 2, "h"),
    F(24, 2, "h"), F(26, 2, "h"), F(28, 1, "b"), F(29, 1, "b"),
    F(30, 2, "h"), F(32, 2, "h"), F(34, 2, "h"), F(36, 1, "B"),
    F(37, 1, "B")
    >>]

RECORD_FORMAT_DOWNLOAD ==
    [size |-> 52, fields |-> <<
    F(0, 2, "h"), F(2, 2, "h"), F(4, 2, "h"), F(6, 2, "h"),
    F(8, 2, "h"), F(10, 2, "H"), F(12, 2, "H"), F(14, 2, "H"),
    F(16, 2, "h"), F(18, 2, "H"), F(20, 2, "h"), F(22, 1, "B"),
    F(23, 1, "B"), F(24, 1, "B"), F(25, 1, "B"), F(26, 1, "B"),
    F(27, 1, "B"), F(28, 1, "B"), F(29, 1, "B"), F(30, 2, "h"),
    F(32, 1, "B"), F(42, 1, "B")
    >>]

RECORD_VERIFICATION_MAP_WLK == (0 :> 1)
RECORD_VERIFICATION_MAP_DOWNLOAD == (21 :> 0)
RECORD_SPECIAL_HANDLING_WLK == {10, 11}
RECORD_SPECIAL_HANDLING_DOWNLOAD == {0, 1, 5, 6}

RECORD_ATTRIBUTE_MAP_WLK == <<
    A("record_version", "STRAIGHT_NUMBER", NoSentinel),
    A("minutes_covered", "STRAIGHT_NUMBER", NoSentinel),
    A("minutes_past_midnight", "STRAIGHT_NUMBER", NoSentinel),
    A("temperature_outside", "TENTHS", {DASH_LARGE}),
    A("temperature_outside_high", "TENTHS", {DASH_LARGE_NEGATIVE}),
    A("temperature_outside_low", "TENTHS", {DASH_LARGE}),
    A("temperature_inside", "TENTHS", {DASH_LARGE}),
    A("barometric_pressure", "THOUSANDTHS", {DASH_ZERO}),
    A("humidity_outside", "TENTHS", {DASH_SMALL}),
    A("humidity_inside", "TENTHS", {DASH_SMALL}),
    A("__special", "STRAIGHT_NUMBER", NoSentinel),
    A("__special", "STRAIGHT_NUMBER", NoSentinel),
    A("wind_speed", "TENTHS", {DASH_SMALL}),
    A("wind_speed_high", "TENTHS", {DASH_ZERO}),
    A("wind_direction_prevailing", "WindDirection", {DASH_SMALL}),
    A("wind_direction_speed_high", "WindDirection", {DASH_SMALL}),
    A("number_of_wind_samples", "STRAIGHT_NUMBER", {DASH_ZERO}),
    A("solar_radiation", "STRAIGHT_NUMBER", {DASH_LARGE_NEGATIVE}),
    A("solar_radiation_high", "STRAIGHT_NUMBER", {DASH_LARGE_NEGATIVE}),
    A("uv_index", "TENTHS", {DASH_SMALL}),
    A("uv_index_high", "TENTHS", {DASH_SMALL})
>>

RECORD_ATTRIBUTE_MAP_DOWNLOAD == <<
    A("__special", "STRAIGHT_NUMBER", NoSentinel),
    A("__special", "STRAIGHT_NUMBER", NoSentinel),
    A("temperature_outside", "TENTHS", {DASH_LARGE}),
    A("temperature_outside_high", "TENTHS", {DASH_LARGE_NEGATIVE}),
    A("temperature_outside_low", "TENTHS", {DASH_LARGE}),
    A("__special", "STRAIGHT_NUMBER", NoSentinel),
    A("__special", "STRAIGHT_NUMBER", NoSentinel),
    A("barometric_pressure", "THOUSANDTHS", {DASH_ZERO}),
    A("solar_radiation", "STRAIGHT_NUMBER", {DASH_LARGE}),
    A("number_of_wind_samples", "STRAIGHT_NUMBER", {DASH_ZERO}),
    A("temperature_inside", "TENTHS", {DASH_LARGE}),
    A("humidity_inside", "STRAIGHT_NUMBER", {DASH_SMALL}),
    A("humidity_outside", "STRAIGHT_NUMBER", {DASH_SMALL}),
    A("wind_speed", "STRAIGHT_DECIMAL", {DASH_SMALL}),
    A("wind_speed_high", "STRAIGHT_DECIMAL", {DASH_ZERO}),
    A("wind_direction_speed_high", "WindDirection", {DASH_SMALL}),
    A("wind_direction_prevailing", "WindDirection", {DASH_SMALL}),
    A("uv_index", "TENTHS", {DASH_SMALL}),
    A("evapotranspiration", "THOUSANDTHS", {DASH_ZERO}),
    A("solar_radiation_high", "STRAIGHT_NUMBER", {DASH_LARGE}),
    A("uv_index_high", "TENTHS", {DASH_SMALL}),
    A("record_version", "STRAIGHT_NUMBER", NoSentinel)
>>

\* rain_code & 0xF000 and rain_code & 0x0FFF
rain_collector_type_of(rain_code) == BitAnd(rain_code, 61440)

rain_clicks_low_byte(rain_code) == BitAnd(rain_code, 255)

rain_clicks_of(rain_code) == BitAnd(rain_code, 4095)

datestamp_ignored_below_zero(arguments) == arguments[0 + 1] < 0

\* if arguments[0] < 1: return None
datestamp_ignored(arguments) == arguments[0 + 1] < 1

RECORD_WIND_DIRECTION_SPECIAL ==
    <<<<"wind_direction_prevailing", "wind_direction_prevailing_degrees">>,
      <<"wind_direction_speed_high", "wind_direction_speed_high_degrees">>>>

\* for k1, k2 in RECORD_WIND_DIRECTION_SPECIAL: record[k2] = record[k1].degrees if record[k1] else None
WindDirectionDegrees(record) ==
    [k2 \in {RECORD_WIND_DIRECTION_SPECIAL[i][2] : i \in 1..2} |->
        LET k1 == (CHOOSE i \in 1..2 : RECORD_WIND_DIRECTION_SPECIAL[i][2] = k2)
            v  == record[RECORD_WIND_DIRECTION_SPECIAL[k1][1]]
        IN  IF Truthy(v) THEN Float10(v.degrees) ELSE None]

ArchiveIntervalRecord_load_from_wlk(content, pos, year, month, day) ==
    LET arguments == struct_unpack_from(RECORD_FORMAT_WLK,
                                        Read(content, pos, RECORD_LENGTH_WLK))
        kwargs == Kwargs(arguments.v, RECORD_ATTRIBUTE_MAP_WLK,
                         DOMAIN RECORD_VERIFICATION_MAP_WLK \cup RECORD_SPECIAL_HANDLING_WLK)
        rain_code == arguments.v[10 + 1]
        rain_collector_type == rain_collector_type_of(rain_code)
        rain_clicks == rain_clicks_of(rain_code)
        rain_rate_clicks == arguments.v[11 + 1]
        collector == RainCollectorTypeDatabase(rain_collector_type)
        rain == [rain_collector_type |-> collector,
                 rain_amount_clicks |-> PyInt(rain_clicks),
                 rain_rate_clicks |-> PyInt(rain_rate_clicks),
                 rain_amount |-> clicks_to_inches(collector, rain_clicks),
                 rain_rate |-> clicks_to_inches(collector, rain_rate_clicks)]
        dt == AddMinutes(datetime(year, month, day, 0, 0),
                         kwargs["minutes_past_midnight"].v)
    IN  IF IsRaise(arguments) THEN arguments
        ELSE IF ~Verified(arguments.v, RECORD_VERIFICATION_MAP_WLK)
        THEN Raise("AssertionError")
        ELSE IF AnyRaise(kwargs) THEN Raise("ValueError")
        ELSE IF IsRaise(collector) THEN collector
        ELSE IF IsRaise(dt) THEN dt
        ELSE [t |-> "ArchiveIntervalRecord",
              rec |-> kwargs @@ rain @@ WindDirectionDegrees(kwargs)
                      @@ [date |-> dt,
                          timestamp |-> PyInt(convert_datetime_to_timestamp(dt))]]

ArchiveIntervalRecord_load_from_download(content, pos, minutes_covered) ==
    LET arguments == struct_unpack_from(RECORD_FORMAT_DOWNLOAD,
                                        Read(content, pos, RECORD_LENGTH_DOWNLOAD))
        kwargs == Kwargs(arguments.v, RECORD_ATTRIBUTE_MAP_DOWNLOAD,
                         DOMAIN RECORD_VERIFICATION_MAP_DOWNLOAD
                         \cup RECORD_SPECIAL_HANDLING_DOWNLOAD)
        rain_clicks == arguments.v[5 + 1]
        rain_rate_clicks == arguments.v[6 + 1]
        collector == RainCollectorTypeSerial(0)
        rain == [rain_collector_type |-> collector,
                 rain_amount_clicks |-> PyInt(rain_clicks),
                 rain_rate_clicks |-> PyInt(rain_rate_clicks),
                 rain_amount |-> clicks_to_inches(collector, rain_clicks),
                 rain_rate |-> clicks_to_inches(collector, rain_rate_clicks)]
        ts == (arguments.v[0 + 1] * 65536) + arguments.v[1 + 1]
        dt == convert_timestamp_to_datetime(ts)
    IN  IF IsRaise(arguments) THEN arguments
        ELSE IF datestamp_ignored(arguments.v) THEN None
        ELSE IF ~Verified(arguments.v, RECORD_VERIFICATION_MAP_DOWNLOAD)
        THEN Raise("AssertionError")
        ELSE IF AnyRaise(kwargs) THEN Raise("ValueError")
        ELSE IF IsRaise(dt) THEN dt
        ELSE [t |-> "ArchiveIntervalRecord",
              rec |-> kwargs @@ [minutes_covered |-> PyInt(minutes_covered)] @@ rain
                      @@ WindDirectionDegrees(kwargs)
                      @@ [timestamp |-> PyInt(ts), date |-> dt]]

(***************************************************************************)
(* LoopRecord (LOOP2 telemetry frame).                                     *)
(***************************************************************************)
RECORD_LENGTH == 99

LOOP2_RECORD_FORMAT ==
    [size |-> 99, fields |-> <<
    F(0, 3, "s"), F(3, 1, "b"), F(4, 1, "B"), F(5, 2, "H"),
    F(7, 2, "H"), F(9, 2, "h"), F(11, 1, "B"), F(12, 2, "h"),
    F(14, 1, "B"), F(15, 1, "B"), F(16, 2, "H"), F(18, 2, "H"),
    F(20, 2, "H"), F(22, 2, "H"), F(24, 2, "H"), F(26, 2, "H"),
    F(28, 2, "H"), F(30, 2, "h"), F(32, 1, "B"), F(33, 1, "B"),
    F(34, 1, "B"), F(35, 2, "h"), F(37, 2, "h"), F(39, 2, "h"),
    F(41, 2, "H"), F(43, 1, "B"), F(44, 2, "H"), F(46, 2, "H"),
    F(50, 2, "H"), F(52, 2, "H"), F(54, 2, "H"), F(56, 2, "H"),
    F(58, 2, "H"), F(71, 1, "B"), F(79, 1, "B"), F(83, 2, "H"),
    F(85, 2, "H"), F(87, 2, "H"), F(89, 2, "H"), F(91, 2, "H"),
    F(93, 2, "H"), F(95, 1, "c"), F(96, 1, "c"), F(97, 2, "H")
    >>]

LOOP2_RECORD_VERIFICATION_MAP_WLK_no_terminators ==
    (0 :> <<76, 79, 79>>) @@ (2 :> 1) @@ (3 :> 32767) @@ (9 :> 255)
    @@ (15 :> 32767) @@ (16 :> 32767) @@ (18 :> 255) @@ (20 :> 255) @@ (33 :> 255)
    @@ (35 :> 32767) @@ (36 :> 32767) @@ (37 :> 32767) @@ (38 :> 32767)
    @@ (39 :> 32767) @@ (40 :> 32767)

LOOP2_RECORD_VERIFICATION_MAP_WLK ==
    (0 :> <<76, 79, 79>>) @@ (2 :> 1) @@ (3 :> 32767) @@ (9 :> 255)
    @@ (15 :> 32767) @@ (16 :> 32767) @@ (18 :> 255) @@ (20 :> 255) @@ (33 :> 255)
    @@ (35 :> 32767) @@ (36 :> 32767) @@ (37 :> 32767) @@ (38 :> 32767)
    @@ (39 :> 32767) @@ (40 :> 32767) @@ (41 :> <<10>>) @@ (42 :> <<13>>)

LOOP2_RECORD_SPECIAL_HANDLING == DOMAIN LOOP2_RECORD_VERIFICATION_MAP_WLK

LOOP2_RECORD_ATTRIBUTE_MAP == <<
    A("_special", "STRAIGHT_NUMBER", NoSentinel),
    A("barometric_trend", "STRAIGHT_NUMBER", {80}),
    A("_special", "STRAIGHT_NUMBER", NoSentinel),
    A("_special", "STRAIGHT_NUMBER", NoSentinel),
    A("barometric_pressure", "THOUSANDTHS", {DASH_ZERO}),
    A("temperature_inside", "TENTHS", {DASH_LARGE}),
    A("humidity_inside", "STRAIGHT_NUMBER", {DASH_SMALL}),
    A("temperature_outside", "TENTHS", {DASH_LARGE}),
    A("wind_speed", "STRAIGHT_DECIMAL", {DASH_SMALL}),
    A("_special", "STRAIGHT_NUMBER", NoSentinel),
    A("wind_direction_degrees", "STRAIGHT_NUMBER", {DASH_ZERO}),
    A("wind_speed_10_minute_average", "TENTHS", {DASH_ZERO}),
    A("wind_speed_2_minute_average", "TENTHS", {DASH_ZERO}),
    A("wind_speed_10_minute_gust", "TENTHS", {DASH_ZERO}),
    A("wind_speed_10_minute_gust_direction_degrees", "STRAIGHT_NUMBER", {DASH_ZERO}),
    A("_special", "STRAIGHT_NUMBER", NoSentinel),
    A("_special", "STRAIGHT_NUMBER", NoSentinel),
    A("dew_point", "STRAIGHT_DECIMAL", {DASH_SMALL}),
    A("_special", "STRAIGHT_NUMBER", NoSentinel),
    A("humidity_outside", "STRAIGHT_NUMBER", {DASH_SMALL}),
    A("_special", "STRAIGHT_NUMBER", NoSentinel),
    A("heat_index", "STRAIGHT_NUMBER", {DASH_SMALL}),
    A("wind_chill", "STRAIGHT_NUMBER", {DASH_SMALL}),
    A("thsw_index", "STRAIGHT_NUMBER", {DASH_SMALL}),
    A("rain_rate_clicks", "STRAIGHT_NUMBER", NoSentinel),
    A("uv_index", "TENTHS", {DASH_SMALL}),
    A("solar_radiation", "STRAIGHT_NUMBER", {DASH_LARGE}),
    A("rain_clicks_this_storm", "STRAIGHT_NUMBER", NoSentinel),
    A("rain_clicks_today", "STRAIGHT_NUMBER", NoSentinel),
    A("rain_clicks_15_minutes", "STRAIGHT_NUMBER", NoSentinel),
    A("rain_clicks_1_hour", "STRAIGHT_NUMBER", NoSentinel),
    A("evapotranspiration", "THOUSANDTHS", {DASH_ZERO}),
    A("rain_clicks_24_hours", "STRAIGHT_NUMBER", NoSentinel),
    A("_special", "STRAIGHT_NUMBER", NoSentinel),
    A("minute_in_hour", "STRAIGHT_NUMBER", {60})
>>

LOOP_WIND_DIRECTION_SPECIAL ==
    <<<<"wind_direction_degrees", "wind_direction">>,
      <<"wind_speed_10_minute_gust_direction_degrees",
        "wind_speed_10_minute_gust_direction">>>>

LOOP_RAIN_AMOUNT_SPECIAL ==
    <<<<"rain_rate_clicks", "rain_rate">>,
      <<"rain_clicks_this_storm", "rain_amount_this_storm">>,
      <<"rain_clicks_today", "rain_amount_today">>,
      <<"rain_clicks_15_minutes", "rain_amount_15_minutes">>,
      <<"rain_clicks_1_hour", "rain_amount_1_hour">>,
      <<"rain_clicks_24_hours", "rain_amount_24_hours">>>>

_post_process_arguments(arguments) ==
    LET rain_collector_type == RainCollectorTypeSerial(0)
        trend == BarometricTrend(arguments["barometric_trend"])
        wind == [k2 \in {LOOP_WIND_DIRECTION_SPECIAL[i][2] : i \in 1..2} |->
                    LET i == CHOOSE j \in 1..2 : LOOP_WIND_DIRECTION_SPECIAL[j][2] = k2
                        v == arguments[LOOP_WIND_DIRECTION_SPECIAL[i][1]]
                    IN  IF Truthy(v) THEN from_degrees(v.v) ELSE None]
        rain == [k2 \in {LOOP_RAIN_AMOUNT_SPECIAL[i][2] : i \in 1..6} |->
                    LET i == CHOOSE j \in 1..6 : LOOP_RAIN_AMOUNT_SPECIAL[j][2] = k2
                        v == arguments[LOOP_RAIN_AMOUNT_SPECIAL[i][1]]
                    IN  IF Truthy(v) THEN clicks_to_inches(rain_collector_type, v.v)
                        ELSE None]
    IN  wind @@ rain
        @@ [arguments EXCEPT !["barometric_trend"] =
                                IF IsRaise(trend) THEN None ELSE trend]

_get_loop_2_arguments(content, at) ==
    LET data == Read(content, at, RECORD_LENGTH)
        unpacked == struct_unpack_from(LOOP2_RECORD_FORMAT, data)
        arguments ==
            [crc_match |-> Bool(calculate_weatherlink_crc(data) = 0),
             record_type |-> PyInt(2)]
            @@ Kwargs(unpacked.v, LOOP2_RECORD_ATTRIBUTE_MAP,
                      DOMAIN LOOP2_RECORD_VERIFICATION_MAP_WLK
                      \cup LOOP2_RECORD_SPECIAL_HANDLING)
    IN  IF IsRaise(unpacked) THEN unpacked
        ELSE IF ~Verified(unpacked.v, LOOP2_RECORD_VERIFICATION_MAP_WLK)
        THEN Raise("AssertionError")
        ELSE [t |-> "dict", rec |-> _post_process_arguments(arguments)]

load_loop_2_from_connection(content, at) ==
    LET arguments == _get_loop_2_arguments(content, at)
    IN  IF IsRaise(arguments) THEN arguments
        ELSE [t |-> "LoopRecord", rec |-> arguments.rec]

(***************************************************************************)
(* Timestamp codec as a state machine: a datetime is packed               *)
(* (ArchiveIntervalRecord.load_from_wlk stores it as record.timestamp)     *)
(* and the packed value is unpacked again.                                 *)
(***************************************************************************)
Years   == (1999 .. (1999 + YearSpan)) \cup {2024, 2063}
Hours   == {0, 7, 23}
Minutes == {0, 30, 59}

DateTimes ==
    {datetime(y, m, dd, h, mi) :
        y \in Years, m \in 1..12, dd \in 1..31, h \in Hours, mi \in Minutes}
    \ {[t |-> "ValueError"]}

TsInit ==
    /\ d \in DateTimes
    /\ timestamp = 0
    /\ date = None
    /\ ts_pc = "dt"
    /\ data_bytes = <<>> /\ crc = 0 /\ crc_pc = "idle"
    /\ kind = "idle" /\ stream = <<>> /\ file_pos = 0 /\ result = None /\ dec_pc = "idle"
    /\ fn_args = <<>> /\ fn_ret = None /\ fn_pc = "idle" /\ fn_locals = None

Encode ==
    /\ ts_pc = "dt"
    /\ timestamp' = convert_datetime_to_timestamp(d)
    /\ ts_pc' = "packed"
    /\ UNCHANGED <<d, date>>
    /\ UNCHANGED <<crc_vars, dec_vars, fn_vars>>

Decode ==
    /\ ts_pc = "packed"
    /\ date' = convert_timestamp_to_datetime(timestamp)
    /\ ts_pc' = "unpacked"
    /\ UNCHANGED <<d, timestamp>>
    /\ UNCHANGED <<crc_vars, dec_vars, fn_vars>>

TsNext == Encode \/ Decode

SpecTimestamp == TsInit /\ [][TsNext]_vars

(***************************************************************************)
(* Checksum as a state machine: a message grows byte by byte, the sender   *)
(* appends the two checksum bytes (high byte first), and a single byte of  *)
(* a sequence whose CRC is 0 is replaced by a different value.             *)
(***************************************************************************)
Alphabet == {0, 76, 255}

CrcInit ==
    /\ data_bytes = <<>>
    /\ crc = 0
    /\ crc_pc = "msg"
    /\ d = None /\ timestamp = 0 /\ date = None /\ ts_pc = "idle"
    /\ kind = "idle" /\ stream = <<>> /\ file_pos = 0 /\ result = None /\ dec_pc = "idle"
    /\ fn_args = <<>> /\ fn_ret = None /\ fn_pc = "idle" /\ fn_locals = None

ReceiveByte(b) ==
    /\ crc_pc = "msg"
    /\ Len(data_bytes) < MaxMsgLen
    /\ data_bytes' = Append(data_bytes, b)
    /\ crc' = calculate_weatherlink_crc(data_bytes')
    /\ UNCHANGED crc_pc
    /\ UNCHANGED <<ts_vars, dec_vars, fn_vars>>

AppendChecksum ==
    /\ crc_pc = "msg"
    /\ data_bytes' = data_bytes \o <<crc \div 256, crc % 256>>
    /\ crc' = calculate_weatherlink_crc(data_bytes')
    /\ crc_pc' = "framed"
    /\ UNCHANGED <<ts_vars, dec_vars, fn_vars>>

CorruptByte(pos, b) ==
    /\ crc_pc \in {"msg", "framed"}
    /\ crc = 0
    /\ pos \in 1..Len(data_bytes)
    /\ b # data_bytes[pos]
    /\ data_bytes' = [data_bytes EXCEPT ![pos] = b]
    /\ crc' = calculate_weatherlink_crc(data_bytes')
    /\ crc_pc' = "corrupt"
    /\ UNCHANGED <<ts_vars, dec_vars, fn_vars>>

CrcNext ==
    \/ \E b \in Alphabet : ReceiveByte(b)
    \/ AppendChecksum
    \/ \E pos \in 1..(MaxMsgLen + 2), b \in 0..255 : CorruptByte(pos, b)

SpecCrc == CrcInit /\ [][CrcNext]_vars

(***************************************************************************)
(* Decoder inputs.  Each entry point is called on a handle positioned at   *)
(* the start of a stream.  Streams are a well-formed record of the kind    *)
(* with one field overwritten by a probe pattern, then optionally one of   *)
(* the kind's critical fields overwritten (verification fields, date       *)
(* stamp, rain code, wind directions), and streams that are shorter or     *)
(* longer than the record.                                                 *)
(***************************************************************************)
Zeros(n) == [i \in 1..n |-> 0]

\* buf with bytes written at 0-based offset e[1]
Poke(buf, e) ==
    [i \in 1..Len(buf) |->
        IF i > e[1] /\ i <= e[1] + Len(e[2]) THEN e[2][i - e[1]] ELSE buf[i]]

RECURSIVE PokeAll(_, _)
PokeAll(buf, es) == IF es = <<>> THEN buf ELSE PokeAll(Poke(buf, Head(es)), Tail(es))

NoEdit == <<0, <<>>>>

Probes(width) ==
    CASE width = 1 -> {<<0>>, <<1>>, <<15>>, <<16>>, <<60>>, <<80>>, <<255>>}
      [] width = 2 -> {<<0, 0>>, <<1, 0>>, <<255, 0>>, <<255, 127>>, <<0, 128>>, <<255, 255>>}
      [] width = 3 -> {<<76, 79, 80>>}
      [] width = 4 -> {<<1, 0, 0, 0>>, <<255, 255, 255, 255>>}
      [] OTHER     -> {[i \in 1..width |-> 87]}

FieldEdits(fields) ==
    UNION {{<<fields[i].off, b>> : b \in Probes(fields[i].width)} : i \in 1..Len(fields)}

HeaderFields ==
    VERSION_CODE_AND_COUNT_FORMAT.fields
    \o [j \in 1..64 |->
          F(VERSION_CODE_AND_COUNT_LENGTH + DAY_INDEX_LENGTH * ((j - 1) \div 2)
              + DAY_INDEX_FORMAT.fields[2 - (j % 2)].off,
            DAY_INDEX_FORMAT.fields[2 - (j % 2)].width,
            DAY_INDEX_FORMAT.fields[2 - (j % 2)].code)]

HeaderBase == Poke(Zeros(212), <<26, <<3, 0>>>>)
DailyBase == PokeAll(Zeros(DAILY_SUMMARY_LENGTH), <<<<0, <<2>>>>, <<88, <<3>>>>>>)
WlkBase == Poke(Zeros(RECORD_LENGTH_WLK), <<0, <<1>>>>)
\* date stamp 1 + 1*32 + 20*512: 2020-01-01
DownloadBase == Poke(Zeros(RECORD_LENGTH_DOWNLOAD), <<0, <<33, 40>>>>)

\* the two checksum bytes of a frame, high byte first, over its first 97 bytes
WithChecksum(frame) ==
    LET c == calculate_weatherlink_crc(SubSeq(frame, 1, RECORD_LENGTH - 2))
    IN  Poke(frame, <<RECORD_LENGTH - 2, <<c \div 256, c % 256>>>>)

LoopBase ==
    WithChecksum(PokeAll(Zeros(RECORD_LENGTH),
        <<<<0, <<76, 79, 79>>>>, <<4, <<1>>>>, <<5, <<255, 127>>>>, <<15, <<255>>>>,
          <<26, <<255, 127>>>>, <<28, <<255, 127>>>>, <<32, <<255>>>>, <<34, <<255>>>>,
          <<71, <<255>>>>, <<83, <<255, 127>>>>, <<85, <<255, 127>>>>,
          <<87, <<255, 127>>>>, <<89, <<255, 127>>>>, <<91, <<255, 127>>>>,
          <<93, <<255, 127>>>>, <<95, <<10>>>>, <<96, <<13>>>>>>))

Kinds ==
    {"Header.load_from_wlk", "DailySummary.load_from_wlk",
     "ArchiveIntervalRecord.load_from_wlk", "ArchiveIntervalRecord.load_from_download",
     "LoopRecord.load_loop_2_from_connection"}

KindFields(k) ==
    CASE k = "Header.load_from_wlk" -> HeaderFields
      [] k = "DailySummary.load_from_wlk" -> DAILY_SUMMARY_FORMAT.fields
      [] k = "ArchiveIntervalRecord.load_from_wlk" -> RECORD_FORMAT_WLK.fields
      [] k = "ArchiveIntervalRecord.load_from_download" -> RECORD_FORMAT_DOWNLOAD.fields
      [] k = "LoopRecord.load_loop_2_from_connection" -> LOOP2_RECORD_FORMAT.fields

KindBase(k) ==
    CASE k = "Header.load_from_wlk" -> HeaderBase
      [] k = "DailySummary.load_from_wlk" -> DailyBase
      [] k = "ArchiveIntervalRecord.load_from_wlk" -> WlkBase
      [] k = "ArchiveIntervalRecord.load_from_download" -> DownloadBase
      [] k = "LoopRecord.load_loop_2_from_connection" -> LoopBase

KindLength(k) ==
    CASE k = "Header.load_from_wlk" -> VERSION_CODE_AND_COUNT_LENGTH + 32 * DAY_INDEX_LENGTH
      [] k = "DailySummary.load_from_wlk" -> DAILY_SUMMARY_LENGTH
      [] k = "ArchiveIntervalRecord.load_from_wlk" -> RECORD_LENGTH_WLK
      [] k = "ArchiveIntervalRecord.load_from_download" -> RECORD_LENGTH_DOWNLOAD
      [] k = "LoopRecord.load_loop_2_from_connection" -> RECORD_LENGTH

LoopVerificationEdits ==
    {<<LOOP2_RECORD_FORMAT.fields[k + 1].off, Zeros(LOOP2_RECORD_FORMAT.fields[k + 1].width)>> :
        k \in DOMAIN LOOP2_RECORD_VERIFICATION_MAP_WLK}

CriticalEdits(k) ==
    CASE k = "Header.load_from_wlk" -> {<<20, <<255, 255>>>>}
      [] k = "DailySummary.load_from_wlk" ->
            {<<0, <<1>>>>, <<88, <<0>>>>, <<52, <<255>>>>, <<53, <<15>>>>}
      [] k = "ArchiveIntervalRecord.load_from_wlk" ->
            {<<0, <<0>>>>, <<22, <<255, 255>>>>, <<28, <<255>>>>, <<28, <<15>>>>,
             <<29, <<255>>>>}
            \cup {<<20, <<5, 16 * n + 1>>>> : n \in 0..15}
      [] k = "ArchiveIntervalRecord.load_from_download" ->
            {<<0, <<0, 0>>>>, <<0, <<255, 255>>>>, <<0, <<1, 0>>>>, <<42, <<255>>>>,
             <<26, <<255>>>>, <<10, <<5, 33>>>>}
      [] k = "LoopRecord.load_loop_2_from_connection" ->
            LoopVerificationEdits \cup {<<3, <<20>>>>, <<16, <<104, 1>>>>}

Inputs(k) ==
    LET base == KindBase(k)
        first == FieldEdits(KindFields(k)) \cup {NoEdit}
        single == {Poke(base, e1) : e1 \in first}
        exact == {Poke(Poke(base, e1), e2) : e1 \in first, e2 \in CriticalEdits(k)}
        resummed == IF k = "LoopRecord.load_loop_2_from_connection"
                    THEN {WithChecksum(x) : x \in single}
                    ELSE {}
        resized == UNION {{SubSeq(x, 1, Len(x) - dl), x \o [i \in 1..dl |-> 170]} :
                            x \in single, dl \in 1..MaxDelta}
    IN  single \cup exact \cup resummed \cup resized
        \cup {<<>>, SubSeq(base, 1, Len(base) \div 2)}

(***************************************************************************)
(* The decoders as a state machine: one call of one entry point on a       *)
(* handle at position 0.  The caller supplies the calendar date (stored    *)
(* layouts) or the archive interval (download layout).                     *)
(***************************************************************************)
CallDates == {<<2020, 4, 1>>}
ArchiveIntervals == {5}

DecInit ==
    /\ kind \in Kinds
    /\ stream \in Inputs(kind)
    /\ file_pos = 0
    /\ result = None
    /\ dec_pc = "call"
    /\ d = None /\ timestamp = 0 /\ date = None /\ ts_pc = "idle"
    /\ data_bytes = <<>> /\ crc = 0 /\ crc_pc = "idle"
    /\ fn_args = <<>> /\ fn_ret = None /\ fn_pc = "idle" /\ fn_locals = None

\* every read() of a call moves the handle; a short read leaves it at the end
Returned(value) ==
    /\ result' = value
    /\ file_pos' = Min(file_pos + KindLength(kind), Len(stream))
    /\ dec_pc' = "done"
    /\ UNCHANGED <<kind, stream, ts_vars, crc_vars, fn_vars>>

HeaderLoadFromWlk ==
    /\ dec_pc = "call"
    /\ kind = "Header.load_from_wlk"
    /\ Returned(Header_load_from_wlk(stream, file_pos))

DailySummaryLoadFromWlk ==
    /\ dec_pc = "call"
    /\ kind = "DailySummary.load_from_wlk"
    /\ \E ymd \in CallDates :
          Returned(DailySummary_load_from_wlk(stream, file_pos, ymd[1], ymd[2], ymd[3]))

ArchiveLoadFromWlk ==
    /\ dec_pc = "call"
    /\ kind = "ArchiveIntervalRecord.load_from_wlk"
    /\ \E ymd \in CallDates :
          Returned(ArchiveIntervalRecord_load_from_wlk(stream, file_pos,
                                                       ymd[1], ymd[2], ymd[3]))

ArchiveLoadFromDownload ==
    /\ dec_pc = "call"
    /\ kind = "ArchiveIntervalRecord.load_from_download"
    /\ \E minutes_covered \in ArchiveIntervals :
          Returned(ArchiveIntervalRecord_load_from_download(stream, file_pos,
                                                            minutes_covered))

LoadLoop2FromConnection ==
    /\ dec_pc = "call"
    /\ kind = "LoopRecord.load_loop_2_from_connection"
    /\ Returned(load_loop_2_from_connection(stream, file_pos))

DecNext ==
    \/ HeaderLoadFromWlk
    \/ DailySummaryLoadFromWlk
    \/ ArchiveLoadFromWlk
    \/ ArchiveLoadFromDownload
    \/ LoadLoop2FromConnection

SpecDecode == DecInit /\ [][DecNext]_vars

(***************************************************************************)
(* C4: timestamp round trip.  Unpacking the packed value of a datetime     *)
(* with minute precision gives back that datetime.                         *)
(***************************************************************************)
TimestampRoundTrip == ts_pc = "unpacked" => date = d

TimestampRoundTripWitness ==
    /\ ts_pc = "unpacked"
    /\ d.year = 1999 /\ d.month = 12 /\ d.day = 31 /\ d.hour = 23 /\ d.minute = 59
    /\ timestamp < 0
    /\ date = d

(***************************************************************************)
(* C5: CRC residue.  The CRC of a message followed by its two checksum     *)
(* bytes (c >> 8, then c & 0xFF) is 0.                                     *)
(***************************************************************************)
CrcResidueIsZero == crc_pc = "framed" => crc = 0

CrcResidueWitness ==
    /\ crc_pc = "framed"
    /\ Len(data_bytes) = 5
    /\ data_bytes[1] = 76
    /\ data_bytes[4] # 0
    /\ crc = 0

(***************************************************************************)
(* C6: CRC error detection.  Replacing one byte of a sequence whose CRC    *)
(* is 0 by a different value gives a sequence whose CRC is not 0.          *)
(***************************************************************************)
CrcDetectsSingleByte == crc_pc = "corrupt" => crc # 0

CrcDetectsWitness ==
    /\ crc_pc = "corrupt"
    /\ Len(data_bytes) = 5
    /\ data_bytes[1] = 76
    /\ crc # 0

(***************************************************************************)
(* Readings of a finished decoder call used by the statements below: the   *)
(* raw bytes of the stream, taken at the offsets the record layouts give.  *)
(***************************************************************************)
Done == dec_pc = "done"

Signed16(lo, hi) ==
    IF lo + 256 * hi >= 32768 THEN lo + 256 * hi - 65536 ELSE lo + 256 * hi

RecordTypes == {"DailySummary", "ArchiveIntervalRecord", "LoopRecord"}

\* download layout, bytes 0-1: the date stamp as a signed 16-bit number
DateStampRaw == Signed16(stream[1], stream[2])

\* stored layout, bytes 20-21 and 22-23: rain code (unsigned), rain rate (signed)
RainCodeRaw == stream[21] + 256 * stream[22]
RainRateRaw == Signed16(stream[23], stream[24])

VerificationMismatch ==
    CASE kind = "DailySummary.load_from_wlk" -> stream[1] # 2 \/ stream[89] # 3
      [] kind = "ArchiveIntervalRecord.load_from_wlk" -> stream[1] # 1
      [] kind = "ArchiveIntervalRecord.load_from_download" -> stream[43] # 0
      [] OTHER -> FALSE

(***************************************************************************)
(* C2 (as stated): a buffer of the right length whose verification field   *)
(* differs from its magic value (daily summary: field 0 = 2 and field 30 = *)
(* 3; stored interval record: field 0 = 1; download interval record:       *)
(* field 21 = 0) always ends in a verification failure, never in a         *)
(* skipped or returned record.                                             *)
(***************************************************************************)
MismatchAlwaysFails ==
    (Done /\ Len(stream) >= KindLength(kind) /\ VerificationMismatch)
        => result = Raise("AssertionError")

(***************************************************************************)
(* C2 (amended): as stated for the daily summary and the stored interval   *)
(* record; for the download interval record the verification of field 21   *)
(* applies only when the date stamp is 1 or more, and a buffer whose date  *)
(* stamp is below 1 is skipped (no record) whatever field 21 holds.        *)
(***************************************************************************)
MismatchFailsUnlessSkipped ==
    (Done /\ Len(stream) >= KindLength(kind) /\ VerificationMismatch) =>
        IF kind = "ArchiveIntervalRecord.load_from_download" /\ DateStampRaw < 1
        THEN result = None
        ELSE result = Raise("AssertionError")

MismatchFailsWitness ==
    /\ Done
    /\ kind = "ArchiveIntervalRecord.load_from_download"
    /\ Len(stream) = RECORD_LENGTH_DOWNLOAD
    /\ stream[43] = 255
    /\ DateStampRaw >= 1
    /\ result = Raise("AssertionError")

KindFormat(k) ==
    CASE k = "DailySummary.load_from_wlk" -> DAILY_SUMMARY_FORMAT
      [] k = "ArchiveIntervalRecord.load_from_wlk" -> RECORD_FORMAT_WLK
      [] k = "ArchiveIntervalRecord.load_from_download" -> RECORD_FORMAT_DOWNLOAD
      [] k = "LoopRecord.load_loop_2_from_connection" -> LOOP2_RECORD_FORMAT

KindAttributeMap(k) ==
    CASE k = "DailySummary.load_from_wlk" -> DAILY_SUMMARY_ATTRIBUTE_MAP
      [] k = "ArchiveIntervalRecord.load_from_wlk" -> RECORD_ATTRIBUTE_MAP_WLK
      [] k = "ArchiveIntervalRecord.load_from_download" -> RECORD_ATTRIBUTE_MAP_DOWNLOAD
      [] k = "LoopRecord.load_loop_2_from_connection" -> LOOP2_RECORD_ATTRIBUTE_MAP

KindSkipped(k) ==
    CASE k = "DailySummary.load_from_wlk" -> DOMAIN DAILY_SUMMARY_VERIFICATION_MAP
      [] k = "ArchiveIntervalRecord.load_from_wlk" ->
            DOMAIN RECORD_VERIFICATION_MAP_WLK \cup RECORD_SPECIAL_HANDLING_WLK
      [] k = "ArchiveIntervalRecord.load_from_download" ->
            DOMAIN RECORD_VERIFICATION_MAP_DOWNLOAD \cup RECORD_SPECIAL_HANDLING_DOWNLOAD
      [] k = "LoopRecord.load_loop_2_from_connection" -> LOOP2_RECORD_SPECIAL_HANDLING

\* the indexes (from 0) of the table-driven fields of kind k that have a sentinel
SentinelFields(k) ==
    {i \in 0..(Len(KindAttributeMap(k)) - 1) :
        /\ i \notin KindSkipped(k)
        /\ KindAttributeMap(k)[i + 1].sentinel # NoSentinel
        /\ KindAttributeMap(k)[i + 1].name # "barometric_trend"}

\* the sentinel value written little-endian in a field of the given width
SentinelBytes(v, width) ==
    IF width = 1 THEN <<v % 256>> ELSE <<v % 256, (v \div 256) % 256>>

(***************************************************************************)
(* C3: every field with a sentinel, in a decode that returns a record:     *)
(* when the field's bytes hold the sentinel value the decoded field is     *)
(* absent, otherwise it is the transform applied to the raw value; so a    *)
(* buffer carrying the sentinel in a field decodes that field to absent.   *)
(* (barometric_trend of the LOOP2 frame is replaced after the table pass   *)
(* and is left to the statement on trend codes.)                           *)
(***************************************************************************)
SentinelDecodesToAbsent ==
    (Done /\ result.t \in RecordTypes) =>
        \A i \in SentinelFields(kind) :
            LET f == KindFormat(kind).fields[i + 1]
                a == KindAttributeMap(kind)[i + 1]
                held == SubSeq(stream, f.off + 1, f.off + f.width)
            IN  IF \E v \in a.sentinel : held = SentinelBytes(v, f.width)
                THEN result.rec[a.name] = None
                ELSE result.rec[a.name] = ApplyTransform(a.transform, UnpackField(stream, f))

LoopMagicHolds ==
    /\ SubSeq(stream, 1, 3) = <<76, 79, 79>>
    /\ stream[5] = 1
    /\ \A i \in {6, 27, 29, 84, 86, 88, 90, 92, 94} : stream[i] = 255 /\ stream[i + 1] = 127
    /\ \A i \in {16, 33, 35, 72} : stream[i] = 255
    /\ stream[96] = 10
    /\ stream[97] = 13

(***************************************************************************)
(* C7: a 99-byte LOOP2 frame fails to decode exactly when one of its       *)
(* verification fields differs from its magic value; otherwise a record is *)
(* returned whatever the checksum, and its crc_match flag is true exactly  *)
(* when the CRC over all 99 bytes is 0.                                    *)
(***************************************************************************)
LoopFailsIffMagicDiffers ==
    (Done /\ kind = "LoopRecord.load_loop_2_from_connection" /\ Len(stream) = RECORD_LENGTH) =>
        /\ IsRaise(result) <=> ~LoopMagicHolds
        /\ LoopMagicHolds =>
              /\ result.t = "LoopRecord"
              /\ result.rec["crc_match"] = Bool(calculate_weatherlink_crc(stream) = 0)

LoopFailsIffMagicDiffersWitness ==
    /\ Done
    /\ kind = "LoopRecord.load_loop_2_from_connection"
    /\ Len(stream) = RECORD_LENGTH
    /\ LoopMagicHolds
    /\ calculate_weatherlink_crc(stream) # 0
    /\ result.t = "LoopRecord"
    /\ result.rec["crc_match"] = Bool(FALSE)

(***************************************************************************)
(* C8: the download decoder returns 'no record' for every 52-byte buffer   *)
(* whose date stamp is less than 1, and a record or a failure, never 'no   *)
(* record', for every buffer whose date stamp is 1 or more.                *)
(***************************************************************************)
DownloadSkipsIffNoDateStamp ==
    (Done /\ kind = "ArchiveIntervalRecord.load_from_download"
          /\ Len(stream) = RECORD_LENGTH_DOWNLOAD) =>
        /\ (DateStampRaw < 1) <=> (result = None)
        /\ DateStampRaw >= 1 => (result.t = "ArchiveIntervalRecord" \/ IsRaise(result))

DownloadSkipsWitness ==
    /\ Done
    /\ kind = "ArchiveIntervalRecord.load_from_download"
    /\ Len(stream) = RECORD_LENGTH_DOWNLOAD
    /\ DateStampRaw = 0
    /\ result = None

\* <<byte position in the stream, direction field, degrees field>>
WindDirectionBytes ==
    IF kind = "ArchiveIntervalRecord.load_from_wlk"
    THEN {<<29, "wind_direction_prevailing", "wind_direction_prevailing_degrees">>,
          <<30, "wind_direction_speed_high", "wind_direction_speed_high_degrees">>}
    ELSE {<<27, "wind_direction_speed_high", "wind_direction_speed_high_degrees">>,
          <<28, "wind_direction_prevailing", "wind_direction_prevailing_degrees">>}

(***************************************************************************)
(* C9: in both interval layouts a raw wind-direction code of 255 decodes   *)
(* to an absent compass direction and an absent degree value, and a code c *)
(* of 0..15 decodes to compass member c with c * 22.5 degrees, north (0)   *)
(* as 360; the degree value is never negative.                             *)
(***************************************************************************)
WindDirectionDecoding ==
    (Done /\ result.t = "ArchiveIntervalRecord") =>
        \A w \in WindDirectionBytes :
            LET c == stream[w[1]]
            IN  /\ c = 255 => result.rec[w[2]] = None /\ result.rec[w[3]] = None
                /\ c \in 0..15 =>
                      /\ result.rec[w[2]].t = "WindDirection"
                      /\ result.rec[w[2]].value = c
                      /\ result.rec[w[3]] =
                            Float10(IF c = 0 THEN 3600 ELSE c * 225)

\* a stored interval record that is valid apart from its rain code: right
\* length, record type 1, wind-direction codes the compass enumeration holds
StoredRecordOtherwiseValid ==
    /\ kind = "ArchiveIntervalRecord.load_from_wlk"
    /\ Len(stream) = RECORD_LENGTH_WLK
    /\ stream[1] = 1
    /\ stream[29] \in (0..15) \cup {255}
    /\ stream[30] \in (0..15) \cup {255}

\* the rain fields of a decoded stored record, from the raw rain code r
RainFieldsFollowCode ==
    LET r == RainCodeRaw
        member == RainCollectorTypeDatabase((r \div 4096) * 4096)
    IN  /\ result.t = "ArchiveIntervalRecord"
        /\ result.rec["rain_collector_type"] = member
        /\ result.rec["rain_amount_clicks"] = PyInt(r % 4096)
        /\ result.rec["rain_rate_clicks"] = PyInt(RainRateRaw)
        /\ result.rec["rain_amount"] = clicks_to_inches(member, r % 4096)
        /\ result.rec["rain_rate"] = clicks_to_inches(member, RainRateRaw)

(***************************************************************************)
(* C10 (as stated): for every 16-bit rain code r in an otherwise valid     *)
(* stored interval record the decode returns a record whose collector type *)
(* has code r & 0xF000, whose rain click count is r & 0x0FFF, whose rain   *)
(* rate clicks are the raw rate field, and whose amounts are those clicks  *)
(* converted by the collector type.                                        *)
(***************************************************************************)
EveryRainCodeDecodes ==
    (Done /\ StoredRecordOtherwiseValid) => RainFieldsFollowCode

(***************************************************************************)
(* C10 (amended): the same, for the rain codes whose top nibble is 0, 1,   *)
(* 2, 3 or 6, the five codes of the collector-type enumeration; for every  *)
(* other top nibble the decode ends in ValueError and returns no record.   *)
(***************************************************************************)
KnownRainCodeDecodes ==
    (Done /\ StoredRecordOtherwiseValid) =>
        IF RainCodeRaw \div 4096 \in {0, 1, 2, 3, 6}
        THEN RainFieldsFollowCode
        ELSE result = Raise("ValueError")

KnownRainCodeDecodesWitness ==
    /\ Done
    /\ StoredRecordOtherwiseValid
    /\ RainCodeRaw = 8192 + 261
    /\ result.t = "ArchiveIntervalRecord"
    /\ result.rec["rain_collector_type"].value = 8192
    /\ result.rec["rain_amount_clicks"] = PyInt(261)

\* download layout, bytes 10-11: the rain code (unsigned)
DownloadRainCodeRaw == stream[11] + 256 * stream[12]

(***************************************************************************)
(* C11: download-variant rain decoding.  For every 16-bit rain code r in   *)
(* a download interval record that decodes, the collector type is the one  *)
(* the top nibble of r selects (serial family, codes 0x00, 0x10, 0x20),    *)
(* rain_amount_clicks is the low 12 bits of r, and rain_amount is that     *)
(* click count converted to inches by the selected type.                   *)
(***************************************************************************)
DownloadRainFollowsCode ==
    (Done /\ kind = "ArchiveIntervalRecord.load_from_download"
          /\ result.t = "ArchiveIntervalRecord") =>
        LET r == DownloadRainCodeRaw
            member == RainCollectorTypeSerial((r \div 4096) * 16)
        IN  /\ result.rec["rain_collector_type"] = member
            /\ result.rec["rain_amount_clicks"] = PyInt(r % 4096)
            /\ result.rec["rain_amount"] = clicks_to_inches(member, r % 4096)

(***************************************************************************)
(* WindDirection.from_degrees as a state machine: one call on an integer.  *)
(***************************************************************************)
Degrees == (0 - DegreeMargin) .. (360 + DegreeMargin)

CompassInit ==
    /\ fn_args \in {<<dg>> : dg \in Degrees}
    /\ fn_ret = None
    /\ fn_pc = "call" /\ fn_locals = None
    /\ d = None /\ timestamp = 0 /\ date = None /\ ts_pc = "idle"
    /\ data_bytes = <<>> /\ crc = 0 /\ crc_pc = "idle"
    /\ kind = "idle" /\ stream = <<>> /\ file_pos = 0 /\ result = None /\ dec_pc = "idle"

FromDegrees ==
    /\ fn_pc = "call"
    /\ fn_ret' = from_degrees(fn_args[1])
    /\ fn_pc' = "from_degrees"
    /\ UNCHANGED <<fn_args, fn_locals, ts_vars, crc_vars, dec_vars>>

CompassNext == FromDegrees

SpecCompass == CompassInit /\ [][CompassNext]_vars

(***************************************************************************)
(* C12: from_degrees is total on the integers: absent for every d < 1 and  *)
(* every d > 360, and for every d in 1..360 one of the 16 members N..NNW   *)
(* (never NS, never a missing key), with 1 and 360 both giving N.          *)
(***************************************************************************)
FromDegreesTotal ==
    fn_pc = "from_degrees" =>
        LET dg == fn_args[1]
        IN  /\ (dg < 1 \/ dg > 360) => fn_ret = None
            /\ dg \in 1..360 =>
                  /\ fn_ret.t = "WindDirection"
                  /\ fn_ret.value \in 0..15
                  /\ fn_ret.name # "NS"
            /\ dg \in {1, 360} => fn_ret.name = "N" /\ fn_ret.value = 0

FromDegreesTotalWitness ==
    /\ fn_pc = "from_degrees"
    /\ fn_args = <<0>>
    /\ fn_ret = None

\* d lies in the 22.5-degree sector centred on code * 22.5 (in units of 1/40 degree)
InSector(dg, code) == ((dg * 40 - code * 900 + 450) % 14400) < 900

(***************************************************************************)
(* C13: for every d in 1..360 from_degrees(d) is the member whose 22.5-    *)
(* degree sector, centred on code * 22.5 (360 for N), contains d.          *)
(***************************************************************************)
FromDegreesNearestSector ==
    (fn_pc = "from_degrees" /\ fn_args[1] \in 1..360) =>
        /\ fn_ret.t = "WindDirection"
        /\ InSector(fn_args[1], fn_ret.value)

(***************************************************************************)
(* C14: decoding the header from any 212-byte buffer yields exactly 32     *)
(* DayIndex entries, read in order after the 20-byte prefix, each with     *)
(* record_count >= 0 and start_index >= 0.                                 *)
(***************************************************************************)
HeaderDayIndexesNonNegative ==
    (Done /\ kind = "Header.load_from_wlk"
          /\ Len(stream) = VERSION_CODE_AND_COUNT_LENGTH + 32 * DAY_INDEX_LENGTH) =>
        /\ result.t = "Header"
        /\ DOMAIN result.day_indexes = 1..32
        /\ \A i \in 1..32 :
              LET at == VERSION_CODE_AND_COUNT_LENGTH + (i - 1) * DAY_INDEX_LENGTH
              IN  /\ result.day_indexes[i].t = "DayIndex"
                  /\ result.day_indexes[i].record_count
                        = Signed16(stream[at + 1], stream[at + 2])
                  /\ result.day_indexes[i].record_count >= 0
                  /\ result.day_indexes[i].start_index >= 0

(***************************************************************************)
(* convert_timestamp_to_datetime on arbitrary packed values: one call on   *)
(* ((day + month*32 + year_offset*512) << 16) + time_part, the fields      *)
(* drawn from in-range and out-of-range values.                            *)
(***************************************************************************)
PackedYears  == {-1, 0, 24, 63}
PackedMonths == {0, 1, 2, 12, 13, 15}
PackedDays   == {0, 1, 29, 30, 31}
PackedTimes  == {0, 59, 60, 99, 2359, 2360, 2400, 65535}

PackedValues ==
    {((dd + mo * 32 + yo * 512) * 65536) + tp :
        yo \in PackedYears, mo \in PackedMonths, dd \in PackedDays, tp \in PackedTimes}

UnpackInit ==
    /\ fn_args \in {<<ts>> : ts \in PackedValues}
    /\ fn_ret = None
    /\ fn_pc = "call" /\ fn_locals = None
    /\ d = None /\ timestamp = 0 /\ date = None /\ ts_pc = "idle"
    /\ data_bytes = <<>> /\ crc = 0 /\ crc_pc = "idle"
    /\ kind = "idle" /\ stream = <<>> /\ file_pos = 0 /\ result = None /\ dec_pc = "idle"

ConvertTimestampToDatetime ==
    /\ fn_pc = "call"
    /\ fn_ret' = convert_timestamp_to_datetime(fn_args[1])
    /\ fn_pc' = "convert_timestamp_to_datetime"
    /\ UNCHANGED <<fn_args, fn_locals, ts_vars, crc_vars, dec_vars>>

UnpackNext == ConvertTimestampToDatetime

SpecUnpack == UnpackInit /\ [][UnpackNext]_vars

\* the fields of a packed value, by the layout of the encoding
PackedFields(ts) ==
    [year   |-> 2000 + ((ts \div 65536) \div 512),
     month  |-> ((ts \div 65536) % 512) \div 32,
     day    |-> (ts \div 65536) % 32,
     hour   |-> (ts % 65536) \div 100,
     minute |-> (ts % 65536) % 100]

FieldsAreCalendarDate(f) ==
    /\ f.month \in 1..12
    /\ f.day \in 1..(CASE f.month \in {4, 6, 9, 11} -> 30
                       [] f.month = 2 ->
                            IF f.year % 4 = 0 /\ (f.year % 100 # 0 \/ f.year % 400 = 0)
                            THEN 29 ELSE 28
                       [] OTHER -> 31)
    /\ f.hour \in 0..23
    /\ f.minute \in 0..59

(***************************************************************************)
(* C15 (as stated): the timestamp decoder does no calendar validation: for *)
(* every packed value, also with day 0, month 0 or 13..15, hour > 23 or    *)
(* minute > 59, it returns the decoded year, month, day, hour and minute   *)
(* instead of failing.                                                     *)
(***************************************************************************)
UnpackNeverFails ==
    fn_pc = "convert_timestamp_to_datetime" =>
        /\ fn_ret.t = "datetime"
        /\ [year |-> fn_ret.year, month |-> fn_ret.month, day |-> fn_ret.day,
            hour |-> fn_ret.hour, minute |-> fn_ret.minute] = PackedFields(fn_args[1])

(***************************************************************************)
(* C15 (amended): the timestamp decoder returns the decoded year, month,   *)
(* day, hour and minute when they form a calendar date and time, and       *)
(* fails with ValueError for every other packed value (day 0 or past the   *)
(* end of the month, month 0 or 13..15, hour > 23, minute > 59).           *)
(***************************************************************************)
UnpackFailsOutsideCalendar ==
    fn_pc = "convert_timestamp_to_datetime" =>
        IF FieldsAreCalendarDate(PackedFields(fn_args[1]))
        THEN /\ fn_ret.t = "datetime"
             /\ [year |-> fn_ret.year, month |-> fn_ret.month, day |-> fn_ret.day,
                 hour |-> fn_ret.hour, minute |-> fn_ret.minute] = PackedFields(fn_args[1])
        ELSE fn_ret = Raise("ValueError")

UnpackFailsOutsideCalendarWitness ==
    /\ fn_pc = "convert_timestamp_to_datetime"
    /\ PackedFields(fn_args[1]).month = 13
    /\ PackedFields(fn_args[1]).day = 1
    /\ PackedFields(fn_args[1]).hour = 0
    /\ fn_ret = Raise("ValueError")

(***************************************************************************)
(* decimal.Decimal arithmetic of the derived metrics.  A coefficient is a  *)
(* natural number held as base-1000 limbs, least significant first, with   *)
(* no leading zero limb (0 is the empty sequence); a Decimal is            *)
(* (-1)^sign * coef * 10^(-exp).  Results are rounded to the 28            *)
(* significant digits of the default context, ROUND_HALF_EVEN.             *)
(***************************************************************************)
RECURSIVE BigNorm(_)
BigNorm(a) ==
    IF a = <<>> THEN <<>>
    ELSE IF a[Len(a)] = 0 THEN BigNorm(SubSeq(a, 1, Len(a) - 1))
    ELSE a

RECURSIVE BigAddC(_, _, _)
BigAddC(a, b, carry) ==
    IF a = <<>> /\ b = <<>> THEN (IF carry = 0 THEN <<>> ELSE <<carry>>)
    ELSE LET x == IF a = <<>> THEN 0 ELSE Head(a)
             y == IF b = <<>> THEN 0 ELSE Head(b)
             t == x + y + carry
         IN  <<t % 1000>> \o BigAddC(IF a = <<>> THEN <<>> ELSE Tail(a),
                                     IF b = <<>> THEN <<>> ELSE Tail(b),
                                     t \div 1000)

BigAdd(a, b) == BigAddC(a, b, 0)

\* a - b for a >= b
RECURSIVE BigSubB(_, _, _)
BigSubB(a, b, borrow) ==
    IF a = <<>> THEN <<>>
    ELSE LET y == IF b = <<>> THEN 0 ELSE Head(b)
             t == Head(a) - y - borrow
         IN  <<t % 1000>> \o BigSubB(Tail(a), IF b = <<>> THEN <<>> ELSE Tail(b),
                                     IF t < 0 THEN 1 ELSE 0)

BigSub(a, b) == BigNorm(BigSubB(a, b, 0))

\* -1, 0, 1 as a < b, a = b, a > b
RECURSIVE BigCmpFrom(_, _, _)
BigCmpFrom(a, b, i) ==
    IF i = 0 THEN 0
    ELSE IF a[i] < b[i] THEN -1
    ELSE IF a[i] > b[i] THEN 1
    ELSE BigCmpFrom(a, b, i - 1)

BigCmp(a, b) ==
    IF Len(a) < Len(b) THEN -1
    ELSE IF Len(a) > Len(b) THEN 1
    ELSE BigCmpFrom(a, b, Len(a))

\* a * n for 0 <= n < 10^6
BigMulSmall(a, n) == IF n = 0 THEN <<>> ELSE BigNorm(LimbMul(a, n, 0))

RECURSIVE BigMul(_, _)
BigMul(a, b) ==
    IF a = <<>> \/ b = <<>> THEN <<>>
    ELSE LET rest == BigMul(a, Tail(b))
         IN  BigAdd(BigMulSmall(a, Head(b)),
                    IF rest = <<>> THEN <<>> ELSE <<0>> \o rest)

\* <<a \div n, a % n>> for 0 < n < 10^6, from the most significant limb down
RECURSIVE BigDivSmallFrom(_, _, _, _)
BigDivSmallFrom(a, n, i, rem) ==
    IF i = 0 THEN <<<<>>, rem>>
    ELSE LET cur == rem * 1000 + a[i]
             rest == BigDivSmallFrom(a, n, i - 1, cur % n)
         IN  <<Append(rest[1], cur \div n), rest[2]>>

BigDivSmall(a, n) ==
    LET r == BigDivSmallFrom(a, n, Len(a), 0)
    IN  <<BigNorm(r[1]), r[2]>>

Pow10Small(r) == CASE r = 0 -> 1 [] r = 1 -> 10 [] r = 2 -> 100

BigPow10(k) == [i \in 1..(k \div 3) |-> 0] \o <<Pow10Small(k % 3)>>

BigDigits(a) ==
    IF a = <<>> THEN 0
    ELSE 3 * (Len(a) - 1)
         + (IF a[Len(a)] >= 100 THEN 3 ELSE IF a[Len(a)] >= 10 THEN 2 ELSE 1)

\* a * 10^k
BigShl(a, k) ==
    IF a = <<>> THEN <<>>
    ELSE [i \in 1..(k \div 3) |-> 0] \o BigMulSmall(a, Pow10Small(k % 3))

\* <<a \div 10^k, a % 10^k>>
BigShr(a, k) ==
    LET q == BigDivSmall(SubSeq(a, (k \div 3) + 1, Len(a)), Pow10Small(k % 3))[1]
    IN  <<q, BigSub(a, BigShl(q, k))>>

BigIsOdd(a) == a # <<>> /\ a[1] % 2 = 1

PREC == 28

\* the context rounding: the coefficient cut to PREC digits, half to even;
\* sticky says that digits beyond the coefficient were not zero
DecRound(sign, coef, exp, sticky) ==
    LET k == BigDigits(coef) - PREC
    IN  IF k <= 0 THEN [t |-> "Decimal", sign |-> sign, coef |-> coef, exp |-> exp]
        ELSE LET sh == BigShr(coef, k)
                 c == BigCmp(sh[2], BigMulSmall(BigPow10(k - 1), 5))
                 up == c > 0 \/ (c = 0 /\ (sticky \/ BigIsOdd(sh[1])))
             IN  [t |-> "Decimal", sign |-> sign,
                  coef |-> IF up THEN BigAdd(sh[1], <<1>>) ELSE sh[1],
                  exp |-> exp - k]

DecNeg(a) == [a EXCEPT !.sign = 1 - a.sign]

MaxExp(a, b) == IF a.exp > b.exp THEN a.exp ELSE b.exp

\* a + b
DecAdd(a, b) ==
    LET e == MaxExp(a, b)
        ca == BigShl(a.coef, e - a.exp)
        cb == BigShl(b.coef, e - b.exp)
        c == BigCmp(ca, cb)
    IN  IF a.sign = b.sign THEN DecRound(a.sign, BigAdd(ca, cb), e, FALSE)
        ELSE IF c >= 0 THEN DecRound(a.sign, BigSub(ca, cb), e, FALSE)
        ELSE DecRound(b.sign, BigSub(cb, ca), e, FALSE)

\* a - b
DecSub(a, b) == DecAdd(a, DecNeg(b))

\* a * b
DecTimes(a, b) ==
    DecRound((a.sign + b.sign) % 2, BigMul(a.coef, b.coef), a.exp + b.exp, FALSE)

\* -1, 0, 1 as a < b, a == b, a > b (comparisons are exact)
DecCmp(a, b) ==
    LET e == MaxExp(a, b)
        ca == BigShl(a.coef, e - a.exp)
        cb == BigShl(b.coef, e - b.exp)
        sa == IF ca = <<>> THEN 0 ELSE IF a.sign = 1 THEN -1 ELSE 1
        sb == IF cb = <<>> THEN 0 ELSE IF b.sign = 1 THEN -1 ELSE 1
    IN  IF sa # sb THEN (IF sa < sb THEN -1 ELSE 1)
        ELSE sa * BigCmp(ca, cb)

DecLt(a, b) == DecCmp(a, b) < 0
DecLe(a, b) == DecCmp(a, b) <= 0
DecEq(a, b) == DecCmp(a, b) = 0

\* a / n for a Decimal n that is a whole number 0 < n < 10^6
DecDivInt(a, n) ==
    LET qr == BigDivSmall(BigShl(a.coef, PREC + 2), n)
    IN  DecRound(a.sign, qr[1], a.exp + PREC + 2, qr[2] # 0)

\* a.quantize(ONE_TENTH, rounding=mode), mode ROUND_CEILING or ROUND_FLOOR
DecQuantizeTenth(a, mode) ==
    IF a.exp <= 1
    THEN [t |-> "Decimal", sign |-> a.sign, coef |-> BigShl(a.coef, 1 - a.exp), exp |-> 1]
    ELSE LET sh == BigShr(a.coef, a.exp - 1)
             away == /\ sh[2] # <<>>
                     /\ \/ mode = "ROUND_CEILING" /\ a.sign = 0
                        \/ mode = "ROUND_FLOOR" /\ a.sign = 1
         IN  [t |-> "Decimal", sign |-> a.sign,
              coef |-> IF away THEN BigAdd(sh[1], <<1>>) ELSE sh[1], exp |-> 1]

\* (2000 * p + x) * x: what digit x (base 1000) adds to the square of root p
SqrtTerm(p, x) == BigMulSmall(BigAdd(BigMulSmall(p, 2000), Limbs(x)), x)

\* the largest x in lo..hi-1 with SqrtTerm(p, x) <= c, given that lo is one
RECURSIVE SqrtDigit(_, _, _, _)
SqrtDigit(p, c, lo, hi) ==
    IF hi - lo <= 1 THEN lo
    ELSE LET mid == (lo + hi) \div 2
         IN  IF BigCmp(SqrtTerm(p, mid), c) <= 0
             THEN SqrtDigit(p, c, mid, hi)
             ELSE SqrtDigit(p, c, lo, mid)

\* <<floor(sqrt(n)), n - floor(sqrt(n))^2>> over the limb pairs i..1 of n
\* (Len(n) even), entered with root p and remainder c of the pairs above
RECURSIVE BigSqrtFrom(_, _, _, _)
BigSqrtFrom(n, i, p, c) ==
    IF i = 0 THEN <<p, c>>
    ELSE LET cur == BigNorm(<<n[2 * i - 1], n[2 * i]>> \o c)
             x == SqrtDigit(p, cur, 0, 1000)
             root == BigNorm(<<x>> \o p)
             rem == BigSub(cur, SqrtTerm(p, x))
         IN  IF Len(root) >= 0 /\ Len(rem) >= 0
             THEN BigSqrtFrom(n, i - 1, root, rem)
             ELSE <<root, rem>>

BigSqrt(n) ==
    LET even == IF Len(n) % 2 = 0 THEN n ELSE Append(n, 0)
    IN  BigSqrtFrom(even, Len(even) \div 2, <<>>, <<>>)

\* a.sqrt() for a >= 0
DecSqrt(a) ==
    LET shift == 2 * (PREC + 2) + (a.exp % 2)
        sr == BigSqrt(BigShl(a.coef, shift))
    IN  DecRound(0, sr[1], (a.exp + shift) \div 2, sr[2] # <<>>)

(***************************************************************************)
(* Derived metrics: the module constants and the calculate_* functions.    *)
(* Temperatures are Decimals (the archive's TENTHS fields), humidity and   *)
(* wind speed are whole numbers.                                           *)
(***************************************************************************)
ZERO_below == [t |-> "Decimal", sign |-> 1, coef |-> Limbs(1), exp |-> 0]
ZERO == DecimalStr(0, 0)
ONE_TENTH == DecimalStr(1, 1)

HI_SECOND_FORMULA_THRESHOLD == DecimalStr(800, 1)
HI_0_094 == DecimalStr(94, 3)
HI_0_5 == DecimalStr(5, 1)
HI_1_2 == DecimalStr(12, 1)
HI_61_0 == DecimalStr(610, 1)
HI_68_0 == DecimalStr(680, 1)
HI_C1_rounded == DecNeg(DecimalStr(42, 0))
HI_C1 == DecNeg(DecimalStr(42379, 3))
HI_C2 == DecimalStr(204901523, 8)
HI_C3 == DecimalStr(1014333127, 8)
HI_C4 == DecNeg(DecimalStr(22475541, 8))
HI_C5 == DecNeg(DecimalStr(683783, 8))
HI_C6 == DecNeg(DecimalStr(5481717, 8))
HI_C7 == DecimalStr(122874, 8)
HI_C8 == DecimalStr(85282, 8)
HI_C9 == DecNeg(DecimalStr(199, 8))
HI_FIRST_ADJUSTMENT_THRESHOLD_dry == <<DecimalStr(800, 1), DecimalStr(1120, 1), DecimalStr(120, 1)>>
HI_FIRST_ADJUSTMENT_THRESHOLD == <<DecimalStr(800, 1), DecimalStr(1120, 1), DecimalStr(130, 1)>>
HI_13 == DecimalStr(13, 0)
HI_17 == DecimalStr(17, 0)
HI_95 == DecimalStr(95, 0)
HI_SECOND_ADJUSTMENT_THRESHOLD == <<DecimalStr(800, 1), DecimalStr(870, 1), DecimalStr(850, 1)>>
HI_85 == DecimalStr(85, 0)
HI_87 == DecimalStr(87, 0)

WC_C1 == DecimalStr(3574, 2)
WC_C2 == DecimalStr(6215, 4)
WC_C3 == DecimalStr(3575, 2)
WC_C4 == DecimalStr(4275, 4)

THW_INDEX_CONSTANT == DecimalStr(1072, 3)

HEAT_INDEX_THRESHOLD_above == DecimalStr(701, 1)
HEAT_INDEX_THRESHOLD == DecimalStr(700, 1)
WIND_CHILL_THRESHOLD == DecimalStr(400, 1)
DEGREE_DAYS_THRESHOLD == DecimalStr(650, 1)

\* Decimal(value or '0') of a whole number
_as_decimal(value) == IF value = 0 THEN DecimalStr(0, 0) ELSE Decimal(value)

\* max(d, -d)
_abs(x) == IF DecLt(x, DecNeg(x)) THEN DecNeg(x) ELSE x

\* WS ** WC_V_EXP, the 0.16th power in the 28-digit context, for the wind
\* speeds the model calls it with
wind_speed_power(WS) ==
    CASE WS = 1 -> [t |-> "Decimal", sign |-> 0, coef |-> <<0, 0, 0, 0, 0, 0, 0, 0, 0, 1>>, exp |-> 27]
       [] WS = 5 -> [t |-> "Decimal", sign |-> 0, coef |-> <<592, 840, 511, 978, 985, 333, 833, 704, 293, 1>>, exp |-> 27]
       [] WS = 3 -> [t |-> "Decimal", sign |-> 0, coef |-> <<162, 501, 859, 853, 453, 472, 326, 173, 192, 1>>, exp |-> 27]
       [] WS = 10 -> [t |-> "Decimal", sign |-> 0, coef |-> <<546, 481, 931, 511, 927, 745, 770, 439, 445, 1>>, exp |-> 27]
       [] WS = 40 -> [t |-> "Decimal", sign |-> 0, coef |-> <<158, 32, 899, 791, 483, 419, 622, 386, 804, 1>>, exp |-> 27]

\* the simple formula averaged with the temperature
heat_index_average(T, RH) ==
    LET heat_index ==
            DecTimes(HI_0_5,
                     DecAdd(DecAdd(DecAdd(T, HI_61_0),
                                   DecTimes(DecSub(T, HI_68_0), HI_1_2)),
                            DecTimes(RH, HI_0_094)))
    IN  DecDivInt(DecAdd(heat_index, T), 2)

\* the Rothfusz regression
heat_index_regression(T, RH) ==
    DecAdd(DecAdd(DecAdd(DecAdd(DecAdd(DecAdd(DecAdd(DecAdd(
        HI_C1,
        DecTimes(HI_C2, T)),
        DecTimes(HI_C3, RH)),
        DecTimes(DecTimes(HI_C4, T), RH)),
        DecTimes(DecTimes(HI_C5, T), T)),
        DecTimes(DecTimes(HI_C6, RH), RH)),
        DecTimes(DecTimes(DecTimes(HI_C7, T), T), RH)),
        DecTimes(DecTimes(DecTimes(HI_C8, T), RH), RH)),
        DecTimes(DecTimes(DecTimes(DecTimes(HI_C9, T), T), RH), RH))

\* the low-humidity and high-humidity adjustments of the regression
heat_index_adjusted(T, RH, heat_index) ==
    IF /\ DecLe(HI_FIRST_ADJUSTMENT_THRESHOLD[1], T)
       /\ DecLe(T, HI_FIRST_ADJUSTMENT_THRESHOLD[2])
       /\ DecLt(RH, HI_FIRST_ADJUSTMENT_THRESHOLD[3])
    THEN DecSub(heat_index,
                DecTimes(DecDivInt(DecSub(HI_13, RH), 4),
                         DecSqrt(DecDivInt(DecSub(HI_17, _abs(DecSub(T, HI_95))), 17))))
    ELSE IF /\ DecLe(HI_SECOND_ADJUSTMENT_THRESHOLD[1], T)
            /\ DecLe(T, HI_SECOND_ADJUSTMENT_THRESHOLD[2])
            /\ DecLt(HI_SECOND_ADJUSTMENT_THRESHOLD[3], RH)
    THEN DecAdd(heat_index,
                DecTimes(DecDivInt(DecSub(RH, HI_85), 10),
                         DecDivInt(DecSub(HI_87, T), 5)))
    ELSE heat_index

\* the body of calculate_heat_index after the simple formula: heat_index is
\* the average, returned below 80 and replaced by the regression otherwise
heat_index_of(T, RH, heat_index) ==
    IF DecLt(heat_index, HI_SECOND_FORMULA_THRESHOLD)
    THEN DecQuantizeTenth(heat_index, "ROUND_CEILING")
    ELSE DecQuantizeTenth(heat_index_adjusted(T, RH, heat_index_regression(T, RH)),
                          "ROUND_CEILING")

calculate_heat_index(temperature, relative_humidity) ==
    IF DecLt(temperature, HEAT_INDEX_THRESHOLD) THEN None
    ELSE heat_index_of(temperature, _as_decimal(relative_humidity),
                       heat_index_average(temperature, _as_decimal(relative_humidity)))

\* the wind chill regression, floor-rounded to one decimal
wind_chill_regression(T, V) ==
    DecQuantizeTenth(
        DecAdd(DecSub(DecAdd(WC_C1, DecTimes(WC_C2, T)), DecTimes(WC_C3, V)),
               DecTimes(DecTimes(WC_C4, T), V)),
        "ROUND_FLOOR")

calculate_wind_chill_unclamped(temperature, wind_speed) ==
    IF DecLt(WIND_CHILL_THRESHOLD, temperature) THEN None
    ELSE LET T == temperature
             WS == _as_decimal(wind_speed)
         IN  IF DecEq(WS, ZERO) THEN T
             ELSE wind_chill_regression(T, wind_speed_power(wind_speed))

calculate_wind_chill(temperature, wind_speed) ==
    IF DecLt(WIND_CHILL_THRESHOLD, temperature) THEN None
    ELSE LET T == temperature
             WS == _as_decimal(wind_speed)
         IN  IF DecEq(WS, ZERO) THEN T
             ELSE LET wind_chill == wind_chill_regression(T, wind_speed_power(wind_speed))
                  IN  IF DecLt(T, wind_chill) THEN T ELSE wind_chill

\* the body of calculate_thw_index after hi and WS are computed
thw_index_of(hi, WS) ==
    IF ~Truthy(hi) THEN None
    ELSE DecSub(hi, DecQuantizeTenth(DecTimes(THW_INDEX_CONSTANT, WS), "ROUND_CEILING"))

calculate_thw_index(temperature, relative_humidity, wind_speed) ==
    thw_index_of(calculate_heat_index(temperature, relative_humidity),
                 _as_decimal(wind_speed))

calculate_cooling_degree_days_inclusive(average_temperature) ==
    IF DecLt(average_temperature, DEGREE_DAYS_THRESHOLD) THEN None
    ELSE DecSub(average_temperature, DEGREE_DAYS_THRESHOLD)

calculate_cooling_degree_days(average_temperature) ==
    IF DecLe(average_temperature, DEGREE_DAYS_THRESHOLD) THEN None
    ELSE DecSub(average_temperature, DEGREE_DAYS_THRESHOLD)

calculate_heating_degree_days(average_temperature) ==
    IF DecLe(DEGREE_DAYS_THRESHOLD, average_temperature) THEN None
    ELSE DecSub(DEGREE_DAYS_THRESHOLD, average_temperature)

(***************************************************************************)
(* The metric functions as a machine: one call of one function on a        *)
(* temperature (tenths of a degree), a relative humidity and a wind speed. *)
(***************************************************************************)
MetricTemperatures ==
    {-400, 0, 399, 400, 401, 500, 600, 649, 650, 651, 690, 699, 700, 701,
     750, 799, 800, 870, 871, 900, 950, 1120, 1121, 3065}
MetricHumidities == {0, 1, 12, 13, 50, 85, 86, 100}
MetricWindSpeeds == {0, 1, 3, 10, 40}

MetricsInit ==
    /\ fn_args \in {<<TENTHS(T), RH, WS>> :
                      T \in MetricTemperatures, RH \in MetricHumidities,
                      WS \in MetricWindSpeeds}
    /\ fn_ret = None
    /\ fn_pc = "call" /\ fn_locals = None
    /\ d = None /\ timestamp = 0 /\ date = None /\ ts_pc = "idle"
    /\ data_bytes = <<>> /\ crc = 0 /\ crc_pc = "idle"
    /\ kind = "idle" /\ stream = <<>> /\ file_pos = 0 /\ result = None /\ dec_pc = "idle"

HeatIndex ==
    /\ fn_pc = "call"
    /\ fn_ret' = calculate_heat_index(fn_args[1], fn_args[2])
    /\ fn_pc' = "calculate_heat_index"
    /\ UNCHANGED <<fn_args, fn_locals, ts_vars, crc_vars, dec_vars>>

WindChill ==
    /\ fn_pc = "call"
    /\ fn_ret' = calculate_wind_chill(fn_args[1], fn_args[3])
    /\ fn_pc' = "calculate_wind_chill"
    /\ UNCHANGED <<fn_args, fn_locals, ts_vars, crc_vars, dec_vars>>

ThwIndex ==
    /\ fn_pc = "call"
    /\ fn_ret' = calculate_thw_index(fn_args[1], fn_args[2], fn_args[3])
    /\ fn_pc' = "calculate_thw_index"
    /\ UNCHANGED <<fn_args, fn_locals, ts_vars, crc_vars, dec_vars>>

CoolingDegreeDays ==
    /\ fn_pc = "call"
    /\ fn_ret' = calculate_cooling_degree_days(fn_args[1])
    /\ fn_pc' = "calculate_cooling_degree_days"
    /\ UNCHANGED <<fn_args, fn_locals, ts_vars, crc_vars, dec_vars>>

HeatingDegreeDays ==
    /\ fn_pc = "call"
    /\ fn_ret' = calculate_heating_degree_days(fn_args[1])
    /\ fn_pc' = "calculate_heating_degree_days"
    /\ UNCHANGED <<fn_args, fn_locals, ts_vars, crc_vars, dec_vars>>

MetricsNext ==
    \/ HeatIndex
    \/ WindChill
    \/ ThwIndex
    \/ CoolingDegreeDays
    \/ HeatingDegreeDays

SpecMetrics == MetricsInit /\ [][MetricsNext]_vars

\* the result is absent or a Decimal: the call raised nothing
MetricReturned == fn_ret = None \/ fn_ret.t = "Decimal"

\* the call made in this state was of function f
MetricCall(f) == fn_pc = f

(***************************************************************************)
(* C16: calculate_heat_index(T, RH) is absent if and only if T < 70: it is *)
(* absent for every T below 70 and present, without raising, for every     *)
(* T >= 70 (exactly 70.0 included) and every RH in 0..100.                 *)
(***************************************************************************)
HeatIndexAbsentIffBelow70 ==
    MetricCall("calculate_heat_index") =>
        /\ MetricReturned
        /\ (fn_ret = None) <=> DecLt(fn_args[1], Decimal(70))

HeatIndexAbsentIffBelow70Witness ==
    /\ MetricCall("calculate_heat_index")
    /\ DecEq(fn_args[1], Decimal(70))
    /\ fn_args[2] = 100
    /\ fn_ret # None
    /\ fn_ret.t = "Decimal"

(***************************************************************************)
(* C17: the value calculate_heat_index returns for T = 90 and RH = 50,     *)
(* rounded up (ceiling) to one decimal place, is 86.4.                     *)
(***************************************************************************)
HeatIndex90And50Is86_4 ==
    (/\ MetricCall("calculate_heat_index")
     /\ DecEq(fn_args[1], Decimal(90))
     /\ fn_args[2] = 50) =>
        /\ fn_ret # None
        /\ DecEq(DecQuantizeTenth(fn_ret, "ROUND_CEILING"), DecimalStr(864, 1))

\* C17 as the code has it: the value returned for T = 90 and RH = 50,
\* ceiling-rounded to one decimal place, is 94.6 (the regression value
\* 94.5969..., the 95 of the NOAA chart).
HeatIndex90And50Is94_6 ==
    (/\ MetricCall("calculate_heat_index")
     /\ DecEq(fn_args[1], Decimal(90))
     /\ fn_args[2] = 50) =>
        /\ fn_ret # None
        /\ DecEq(DecQuantizeTenth(fn_ret, "ROUND_CEILING"), DecimalStr(946, 1))

HeatIndex90And50Witness ==
    /\ MetricCall("calculate_heat_index")
    /\ DecEq(fn_args[1], Decimal(90))
    /\ fn_args[2] = 50
    /\ fn_ret # None
    /\ DecEq(fn_ret, DecQuantizeTenth(heat_index_regression(fn_args[1], Decimal(50)),
                                      "ROUND_CEILING"))

\* the value returned is the regression value, or T where that is above T
ClampedTo(T, regression) ==
    DecEq(fn_ret, IF DecLt(T, regression) THEN T ELSE regression)

(***************************************************************************)
(* C18: for WS >= 0, calculate_wind_chill(T, WS) is absent exactly when    *)
(* T > 40 and present for every T <= 40 (40 included); when present it is  *)
(* T itself if WS = 0 and it never exceeds T: the floor-rounded regression *)
(* value is replaced by T whenever it is greater than T.                   *)
(***************************************************************************)
WindChillNeverExceedsTemperature ==
    MetricCall("calculate_wind_chill") =>
        /\ MetricReturned
        /\ (fn_ret = None) <=> DecLt(Decimal(40), fn_args[1])
        /\ fn_ret # None =>
              /\ fn_args[3] = 0 => DecEq(fn_ret, fn_args[1])
              /\ DecLe(fn_ret, fn_args[1])
              /\ fn_args[3] # 0 =>
                    ClampedTo(fn_args[1],
                              wind_chill_regression(fn_args[1], wind_speed_power(fn_args[3])))

\* the regression value of 40 F in a wind of 1 mph is above 40, and 40 is returned
WindChillClampedWitness ==
    /\ MetricCall("calculate_wind_chill")
    /\ DecEq(fn_args[1], Decimal(40))
    /\ fn_args[3] = 1
    /\ DecLt(fn_args[1], wind_chill_regression(fn_args[1], wind_speed_power(1)))
    /\ fn_ret # None
    /\ DecEq(fn_ret, Decimal(40))

\* the THW index returned is absent with the heat index hi, and otherwise is
\* hi less the correction and no more than hi
ThwIndexIs(hi, correction) ==
    /\ MetricReturned
    /\ (fn_ret = None) <=> (hi = None)
    /\ hi # None /\ fn_ret # None =>
          /\ DecEq(fn_ret, DecSub(hi, correction))
          /\ DecLe(fn_ret, hi)

(***************************************************************************)
(* C19: calculate_thw_index(T, RH, WS) is absent exactly when              *)
(* calculate_heat_index(T, RH) is absent, and otherwise is that heat index *)
(* minus 1.072 * WS rounded up (ceiling) to one decimal place; so for      *)
(* WS >= 0 it never exceeds the heat index.                                *)
(***************************************************************************)
ThwIndexFollowsHeatIndex ==
    MetricCall("calculate_thw_index") =>
        ThwIndexIs(calculate_heat_index(fn_args[1], fn_args[2]),
                   DecQuantizeTenth(DecTimes(DecimalStr(1072, 3), Decimal(fn_args[3])),
                                    "ROUND_CEILING"))

(***************************************************************************)
(* C20: against the fixed threshold of 65 degrees,                         *)
(* calculate_cooling_degree_days(T) is T - 65 when T > 65 and absent when  *)
(* T <= 65, and calculate_heating_degree_days(T) is 65 - T when T < 65 and *)
(* absent when T >= 65; the two are never both present, both are absent    *)
(* exactly at T = 65, cooling(70) = 5 and heating(60) = 5.                 *)
(***************************************************************************)
DegreeDaysAgainst65 ==
    LET T == fn_args[1]
        cooling == calculate_cooling_degree_days(T)
        heating == calculate_heating_degree_days(T)
    IN  /\ MetricCall("calculate_cooling_degree_days") =>
              /\ MetricReturned
              /\ (fn_ret = None) <=> DecLe(T, Decimal(65))
              /\ fn_ret # None => DecEq(fn_ret, DecSub(T, Decimal(65)))
              /\ DecEq(T, Decimal(70)) => fn_ret # None /\ DecEq(fn_ret, Decimal(5))
        /\ MetricCall("calculate_heating_degree_days") =>
              /\ MetricReturned
              /\ (fn_ret = None) <=> DecLe(Decimal(65), T)
              /\ fn_ret # None => DecEq(fn_ret, DecSub(Decimal(65), T))
              /\ DecEq(T, Decimal(60)) => fn_ret # None /\ DecEq(fn_ret, Decimal(5))
        /\ (MetricCall("calculate_cooling_degree_days")
            \/ MetricCall("calculate_heating_degree_days")) =>
              /\ ~(cooling # None /\ heating # None)
              /\ (cooling = None /\ heating = None) <=> DecEq(T, Decimal(65))

DegreeDaysAgainst65Witness ==
    /\ MetricCall("calculate_cooling_degree_days")
    /\ DecEq(fn_args[1], Decimal(70))
    /\ fn_ret # None
    /\ DecEq(fn_ret, Decimal(5))
    /\ calculate_heating_degree_days(fn_args[1]) = None

(***************************************************************************)
(* calculate_10_minute_wind_average.  A record is                          *)
(* <<wind_speed, wind_direction, timestamp_station, minutes_covered>>; the *)
(* call is followed sample by sample, its local variables in fn_locals.    *)
(***************************************************************************)
Last10_unbounded(q) == q

\* collections.deque(maxlen=10) after extend: the last ten items are kept
Last10(q) == IF Len(q) <= 10 THEN q ELSE SubSeq(q, Len(q) - 9, Len(q))

\* [x] * n
Repeat(x, n) == [i \in 1..n |-> x]

\* sum(speed_queue) over the first i items
RECURSIVE DecSum(_, _)
DecSum(q, i) == IF i = 0 THEN Decimal(0) ELSE DecAdd(DecSum(q, i - 1), q[i])

Count(list, x) == Cardinality({i \in DOMAIN list : list[i] = x})

\* collections.Counter(list).most_common()[0][0]: an item of the highest count
\* (which one of several is the interpreter's dictionary order)
MostCommon(list) ==
    {list[i] : i \in {k \in DOMAIN list :
                        \A j \in DOMAIN list : Count(list, list[j]) <= Count(list, list[k])}}

AllAbsent == <<None, None, None, None>>

too_long_over_eleven(minutes_covered) == minutes_covered > 11

\* a sample of more than 10 minutes ends the call
too_long(minutes_covered) == minutes_covered > 10

window_full_at_nine(speed_queue) == Len(speed_queue) >= 9

\* the average is taken when the queue holds 10 items
window_full(speed_queue) == Len(speed_queue) = 10

\* the locals before the loop
wind_average_locals ==
    [speed_queue |-> <<>>, direction_queue |-> <<>>, timestamp_queue |-> <<>>,
     current_max |-> ZERO, current_direction_list |-> <<>>,
     current_timestamp_list |-> <<>>, n |-> 0]

\* the timestamps a sample of minutes_covered minutes puts in the queue
sample_timestamps(timestamp_station, minutes_covered) ==
    IF minutes_covered = 1 THEN <<timestamp_station>>
    ELSE [i \in 1..minutes_covered |->
             AddMinutes(timestamp_station, 0 - (minutes_covered - i))]

\* the locals once the three queues hold the new sample
wind_average_compare_replace(l, speed_queue, direction_queue, timestamp_queue, average) ==
    IF window_full(speed_queue) /\ DecLe(l.current_max, average)
    THEN [speed_queue |-> speed_queue, direction_queue |-> direction_queue,
          timestamp_queue |-> timestamp_queue, current_max |-> average,
          current_direction_list |-> direction_queue,
          current_timestamp_list |-> timestamp_queue, n |-> l.n + 1]
    ELSE [l EXCEPT !.speed_queue = speed_queue, !.direction_queue = direction_queue,
                   !.timestamp_queue = timestamp_queue, !.n = l.n + 1]

wind_average_compare(l, speed_queue, direction_queue, timestamp_queue, average) ==
    IF window_full(speed_queue) /\ DecLt(l.current_max, average)
    THEN [speed_queue |-> speed_queue, direction_queue |-> direction_queue,
          timestamp_queue |-> timestamp_queue, current_max |-> average,
          current_direction_list |-> direction_queue,
          current_timestamp_list |-> timestamp_queue, n |-> l.n + 1]
    ELSE [l EXCEPT !.speed_queue = speed_queue, !.direction_queue = direction_queue,
                   !.timestamp_queue = timestamp_queue, !.n = l.n + 1]

wind_average_queued(l, speed_queue, direction_queue, timestamp_queue) ==
    wind_average_compare(l, speed_queue, direction_queue, timestamp_queue,
                         DecDivInt(DecSum(speed_queue, Len(speed_queue)), 10))

\* one pass of the loop body for a sample of at most 10 minutes
wind_average_sample(l, wind_speed, wind_speed_direction, timestamp_station, minutes_covered) ==
    wind_average_queued(
        l,
        Last10(l.speed_queue \o Repeat(_as_decimal(wind_speed), minutes_covered)),
        Last10(l.direction_queue \o Repeat(wind_speed_direction, minutes_covered)),
        Last10(l.timestamp_queue \o sample_timestamps(timestamp_station, minutes_covered)))

\* the samples of the model: runs of equal samples, stamped with the running
\* total of the minutes they cover, from ten minutes before midnight
WindKinds == {<<0, None>>, <<5, WindDirectionMember(0)>>,
              <<5, WindDirectionMember(4)>>, <<8, WindDirectionMember(4)>>}
WindMinutes == {1, 5, 10, 11}
WindRepeats == {1, 9, 10}
WindBlocks == WindKinds \X WindMinutes \X WindRepeats
WindStart == datetime(2020, 4, 1, 23, 50)

WindRun(b) == Repeat(<<b[1][1], b[1][2], b[2]>>, b[3])

RECURSIVE CoveredThrough(_, _)
CoveredThrough(samples, i) ==
    IF i = 0 THEN 0 ELSE samples[i][3] + CoveredThrough(samples, i - 1)

WindRecords(samples) ==
    [i \in DOMAIN samples |->
        <<samples[i][1], samples[i][2],
          AddMinutes(WindStart, CoveredThrough(samples, i)), samples[i][3]>>]

WindInputs ==
    {WindRecords(WindRun(a)) : a \in WindBlocks}
    \cup {WindRecords(WindRun(a) \o WindRun(b)) : a \in WindBlocks, b \in WindBlocks}

WindInit ==
    /\ fn_args \in {<<records>> : records \in WindInputs}
    /\ fn_ret = None
    /\ fn_pc = "call" /\ fn_locals = None
    /\ d = None /\ timestamp = 0 /\ date = None /\ ts_pc = "idle"
    /\ data_bytes = <<>> /\ crc = 0 /\ crc_pc = "idle"
    /\ kind = "idle" /\ stream = <<>> /\ file_pos = 0 /\ result = None /\ dec_pc = "idle"

WindAverageEnter ==
    /\ fn_pc = "call"
    /\ fn_locals' = wind_average_locals
    /\ fn_pc' = "loop"
    /\ UNCHANGED <<fn_args, fn_ret, ts_vars, crc_vars, dec_vars>>

WindAverageSample ==
    /\ fn_pc = "loop"
    /\ fn_locals.n < Len(fn_args[1])
    /\ ~too_long(fn_args[1][fn_locals.n + 1][4])
    /\ fn_locals' = wind_average_sample(fn_locals,
                                        fn_args[1][fn_locals.n + 1][1],
                                        fn_args[1][fn_locals.n + 1][2],
                                        fn_args[1][fn_locals.n + 1][3],
                                        fn_args[1][fn_locals.n + 1][4])
    /\ UNCHANGED <<fn_args, fn_ret, fn_pc, ts_vars, crc_vars, dec_vars>>

WindAverageTooLong ==
    /\ fn_pc = "loop"
    /\ fn_locals.n < Len(fn_args[1])
    /\ too_long(fn_args[1][fn_locals.n + 1][4])
    /\ fn_ret' = AllAbsent
    /\ fn_pc' = "calculate_10_minute_wind_average"
    /\ UNCHANGED <<fn_args, fn_locals, ts_vars, crc_vars, dec_vars>>

WindAverageReturn ==
    /\ fn_pc = "loop"
    /\ fn_locals.n = Len(fn_args[1])
    /\ IF DecLt(ZERO, fn_locals.current_max)
       THEN \E direction \in MostCommon(fn_locals.current_direction_list) :
               fn_ret' = <<fn_locals.current_max, direction,
                           fn_locals.current_timestamp_list[1],
                           fn_locals.current_timestamp_list[
                               Len(fn_locals.current_timestamp_list)]>>
       ELSE fn_ret' = AllAbsent
    /\ fn_pc' = "calculate_10_minute_wind_average"
    /\ UNCHANGED <<fn_args, fn_locals, ts_vars, crc_vars, dec_vars>>

WindNext ==
    \/ WindAverageEnter
    \/ WindAverageSample
    \/ WindAverageTooLong
    \/ WindAverageReturn

SpecWind == WindInit /\ [][WindNext]_vars

\* the call of calculate_10_minute_wind_average has returned
WindReturned == fn_pc = "calculate_10_minute_wind_average"

\* the minutes covered by the first i records
RECURSIVE MinutesThrough(_, _)
MinutesThrough(records, i) ==
    IF i = 0 THEN 0 ELSE records[i][4] + MinutesThrough(records, i - 1)

\* ten one-minute records of one positive speed and one direction
ConstantTenMinutes(records) ==
    /\ Len(records) = 10
    /\ records[1][1] > 0
    /\ \A i \in 1..10 : /\ records[i][4] = 1
                        /\ records[i][1] = records[1][1]
                        /\ records[i][2] = records[1][2]

(***************************************************************************)
(* C21: over 10 one-minute samples of one constant positive speed s and    *)
(* one direction d, calculate_10_minute_wind_average returns (s, d,        *)
(* timestamp of the first sample, timestamp of the tenth sample); over     *)
(* samples whose covered minutes total fewer than 10 it returns the        *)
(* all-absent tuple.                                                       *)
(***************************************************************************)
WindAverageOfConstantRun ==
    WindReturned =>
        /\ ConstantTenMinutes(fn_args[1]) =>
              /\ fn_ret[1] # None
              /\ DecEq(fn_ret[1], Decimal(fn_args[1][1][1]))
              /\ fn_ret[2] = fn_args[1][1][2]
              /\ fn_ret[3] = fn_args[1][1][3]
              /\ fn_ret[4] = fn_args[1][10][3]
        /\ MinutesThrough(fn_args[1], Len(fn_args[1])) < 10 => fn_ret = AllAbsent

WindAverageOfConstantRunWitness ==
    /\ WindReturned
    /\ ConstantTenMinutes(fn_args[1])
    /\ fn_args[1][1][1] = 5
    /\ fn_ret[1] # None
    /\ DecEq(fn_ret[1], Decimal(5))
    /\ fn_ret[2] = WindDirectionMember(0)
    /\ fn_ret[3] = datetime(2020, 4, 1, 23, 51)
    /\ fn_ret[4] = datetime(2020, 4, 2, 0, 0)

(***************************************************************************)
(* C22: if any sample of the input covers more than 10 minutes, the result *)
(* is the all-absent tuple, wherever the sample stands in the sequence and *)
(* whatever maximum the samples before it had recorded.                    *)
(***************************************************************************)
WindAverageAbsentOnLongSample ==
    (WindReturned /\ \E i \in DOMAIN fn_args[1] : fn_args[1][i][4] > 10) =>
        fn_ret = AllAbsent

\* a sample of 11 minutes after a maximum of 8 had been recorded
WindAverageAbsentOnLongSampleWitness ==
    /\ WindReturned
    /\ Len(fn_args[1]) > 10
    /\ fn_args[1][11][4] > 10
    /\ DecEq(fn_locals.current_max, Decimal(8))
    /\ fn_ret = AllAbsent

\* the minute-slots <<speed, direction, timestamp>> of the first i records,
\* oldest first: a record of k minutes ending at t fills t-(k-1) .. t
RECURSIVE WindSlots(_, _)
WindSlots(records, i) ==
    IF i = 0 THEN <<>>
    ELSE WindSlots(records, i - 1)
         \o [j \in 1..records[i][4] |->
                <<records[i][1], records[i][2],
                  AddMinutes(records[i][3], 0 - (records[i][4] - j))>>]

\* the newest min(10, slots) slots after the first i records
WindowAfter(records, i) ==
    LET slots == WindSlots(records, i)
    IN  SubSeq(slots, IF Len(slots) > 10 THEN Len(slots) - 9 ELSE 1, Len(slots))

RECURSIVE SpeedTotal(_, _)
SpeedTotal(window, i) == IF i = 0 THEN 0 ELSE window[i][1] + SpeedTotal(window, i - 1)

\* the records after which the window holds 10 slots
FullPoints(records) == {i \in DOMAIN records : MinutesThrough(records, i) >= 10}

\* ten times the mean of the window after record i
TenMeans(records, i) == SpeedTotal(WindowAfter(records, i), 10)

\* the earliest full point whose window has the greatest mean
BestPoint(records) ==
    CHOOSE i \in FullPoints(records) :
        /\ \A k \in FullPoints(records) : TenMeans(records, k) <= TenMeans(records, i)
        /\ \A k \in FullPoints(records) :
              TenMeans(records, k) = TenMeans(records, i) => i <= k

\* direction x is a mode of the directions of the window
IsModeOf(x, window) ==
    /\ \E i \in DOMAIN window : window[i][2] = x
    /\ \A j \in DOMAIN window :
          Cardinality({i \in DOMAIN window : window[i][2] = window[j][2]})
              <= Cardinality({i \in DOMAIN window : window[i][2] = x})

\* the result is that of the window after record i
ResultOfWindow(records, i) ==
    /\ fn_ret[1] # None
    /\ DecEq(fn_ret[1], DecimalStr(TenMeans(records, i), 1))
    /\ IsModeOf(fn_ret[2], WindowAfter(records, i))
    /\ fn_ret[3] = WindowAfter(records, i)[1][3]
    /\ fn_ret[4] = WindowAfter(records, i)[10][3]

(***************************************************************************)
(* C23: for samples each covering 1..10 minutes, the speed returned is the *)
(* maximum, over the points after a sample at which the window holds 10    *)
(* minute-slots, of the mean of those 10 slots; the direction is the mode  *)
(* of the directions in the earliest window that attains the maximum (a    *)
(* later window with an equal average does not replace it), and start and  *)
(* end are the first and last slot timestamps of that window.  Nothing is  *)
(* returned when there is no such point or the maximum is not positive.    *)
(***************************************************************************)
WindAverageIsEarliestMaximum ==
    (WindReturned /\ \A i \in DOMAIN fn_args[1] : fn_args[1][i][4] \in 1..10) =>
        IF /\ FullPoints(fn_args[1]) # {}
           /\ TenMeans(fn_args[1], BestPoint(fn_args[1])) > 0
        THEN ResultOfWindow(fn_args[1], BestPoint(fn_args[1]))
        ELSE fn_ret = AllAbsent

\* ten minutes at 5 from N, then ten at 5 from E: the first window is kept
WindAverageIsEarliestMaximumWitness ==
    /\ WindReturned
    /\ Len(fn_args[1]) = 20
    /\ \A i \in 1..20 : fn_args[1][i][1] = 5 /\ fn_args[1][i][4] = 1
    /\ fn_args[1][1][2] = WindDirectionMember(0)
    /\ fn_args[1][20][2] = WindDirectionMember(4)
    /\ BestPoint(fn_args[1]) = 10
    /\ fn_ret[2] = WindDirectionMember(0)
    /\ fn_ret[4] = fn_args[1][10][3]

\* the loop of calculate_10_minute_wind_average has consumed some samples
WindInLoop == fn_pc = "loop"

\* slot i of the three queues is slot i of the window
SameSlot(l, window, i) ==
    /\ DecEq(l.speed_queue[i], _as_decimal(window[i][1]))
    /\ l.direction_queue[i] = window[i][2]
    /\ l.timestamp_queue[i] = window[i][3]

\* the three queues are, slot for slot, the given window
QueuesAre(l, window) ==
    /\ Len(l.speed_queue) = Len(window)
    /\ Len(l.direction_queue) = Len(window)
    /\ Len(l.timestamp_queue) = Len(window)
    /\ \A i \in DOMAIN window : SameSlot(l, window, i)

(***************************************************************************)
(* C27: after each processed sample (of at most 10 minutes) the speed,     *)
(* direction and timestamp windows hold the same number of slots, namely   *)
(* min(10, minutes covered so far); slot i of all three comes from the     *)
(* same minute of the same sample; a sample of k minutes ending at t       *)
(* contributes the timestamps t-(k-1) .. t in increasing order; and the    *)
(* oldest slots are the ones evicted.                                      *)
(***************************************************************************)
WindowsStayAligned ==
    WindInLoop =>
        /\ Len(fn_locals.speed_queue)
              = Min(10, MinutesThrough(fn_args[1], fn_locals.n))
        /\ QueuesAre(fn_locals, WindowAfter(fn_args[1], fn_locals.n))

\* five-minute samples past the tenth minute: the first sample is evicted
WindowsStayAlignedWitness ==
    /\ WindInLoop
    /\ fn_locals.n = 3
    /\ \A i \in 1..3 : fn_args[1][i][4] = 5
    /\ Len(fn_locals.timestamp_queue) = 10
    /\ fn_locals.timestamp_queue[1] = AddMinutes(fn_args[1][2][3], 0 - 4)
    /\ fn_locals.timestamp_queue[10] = fn_args[1][3][3]

\* the result carries a strictly positive speed and both timestamps
PositiveResult ==
    /\ fn_ret[1] # None
    /\ DecLt(DecimalStr(0, 0), fn_ret[1])
    /\ fn_ret[3] # None
    /\ fn_ret[4] # None

\* every sample of the input has speed 0
AllCalm(records) == \A i \in DOMAIN records : records[i][1] = 0

\* C28 as stated: the result is all-absent, or its speed is strictly
\* positive and its direction, start and end are all present.
WindAverageNeverZeroWithDirection ==
    WindReturned => (fn_ret = AllAbsent \/ (PositiveResult /\ fn_ret[2] # None))

(***************************************************************************)
(* C28: calculate_10_minute_wind_average never returns an average of zero: *)
(* the result is either the all-absent tuple or a tuple whose speed is     *)
(* strictly positive and whose start and end are present; its direction is *)
(* the most frequent direction value of the window, which is absent only   *)
(* when samples without a direction are the most frequent in that window.  *)
(* A full window in which every speed is 0 gives the all-absent tuple.     *)
(***************************************************************************)
WindAverageNeverZero ==
    WindReturned =>
        /\ fn_ret = AllAbsent \/ PositiveResult
        /\ AllCalm(fn_args[1]) => fn_ret = AllAbsent
        /\ (fn_ret # AllAbsent /\ fn_ret[2] = None
            /\ \A i \in DOMAIN fn_args[1] : fn_args[1][i][4] \in 1..10)
              => IsModeOf(None, WindowAfter(fn_args[1], BestPoint(fn_args[1])))

\* nine calm minutes without direction, then one minute at 5: the average is
\* 0.5 and the most frequent direction is the absent one
WindAverageNeverZeroWitness ==
    /\ WindReturned
    /\ Len(fn_args[1]) = 10
    /\ \A i \in 1..9 : fn_args[1][i] [1] = 0 /\ fn_args[1][i][2] = None
                       /\ fn_args[1][i][4] = 1
    /\ fn_args[1][10][1] = 5
    /\ PositiveResult
    /\ fn_ret[2] = None

\* ten calm minutes fill the window and nothing is returned
WindAverageCalmWindowWitness ==
    /\ WindReturned
    /\ AllCalm(fn_args[1])
    /\ MinutesThrough(fn_args[1], Len(fn_args[1])) >= 10
    /\ \A i \in DOMAIN fn_args[1] : fn_args[1][i][4] = 1
    /\ fn_ret = AllAbsent

\* the number of tenths in a Decimal that has one decimal place
TenthsOf(x) == (IF x.sign = 1 THEN 0 - 1 ELSE 1) * LimbValue(x.coef)

\* 10000 times the simple average 1.05 T - 5.15 + 0.0235 RH, T in tenths
AverageTimes10000(tenths, RH) == 1050 * tenths - 51500 + 235 * RH

\* the gates of the two corrections, as the claim states them
SubtractiveApplies(tenths, RH) == tenths >= 800 /\ tenths <= 1120 /\ RH < 13
AdditiveApplies(tenths, RH) == tenths >= 800 /\ tenths <= 870 /\ RH > 85

\* ((13 - RH) / 4) * sqrt((17 - |T - 95|) / 17)
SubtractiveCorrection(T, RH) ==
    DecTimes(DecDivInt(DecSub(Decimal(13), RH), 4),
             DecSqrt(DecDivInt(DecSub(Decimal(17), _abs(DecSub(T, Decimal(95)))), 17)))

\* ((RH - 85) / 10) * ((87 - T) / 5)
AdditiveCorrection(T, RH) ==
    DecTimes(DecDivInt(DecSub(RH, Decimal(85)), 10),
             DecDivInt(DecSub(Decimal(87), T), 5))

\* the regression with the correction that the gates select
CorrectedRegression(T, RH, tenths, percent) ==
    IF SubtractiveApplies(tenths, percent)
    THEN DecSub(heat_index_regression(T, RH), SubtractiveCorrection(T, RH))
    ELSE IF AdditiveApplies(tenths, percent)
    THEN DecAdd(heat_index_regression(T, RH), AdditiveCorrection(T, RH))
    ELSE heat_index_regression(T, RH)

\* the value returned is value rounded up to one decimal place
IsCeilingOf(value) ==
    /\ fn_ret.exp = 1
    /\ DecLe(value, fn_ret)
    /\ DecLt(DecSub(fn_ret, DecimalStr(1, 1)), value)

(***************************************************************************)
(* C26: for T >= 70 calculate_heat_index returns the simple average when   *)
(* that average is below 80 and otherwise the nine-term regression; the    *)
(* subtractive correction is applied exactly when 80 <= T <= 112 and       *)
(* RH < 13, the additive one exactly when 80 <= T <= 87 and RH > 85, never *)
(* both; the square-root argument (17 - |T - 95|) / 17 is non-negative     *)
(* whenever the subtractive correction is applied; and every result is     *)
(* rounded up (ceiling) to one decimal place.                              *)
(***************************************************************************)
HeatIndexFormulaSelection ==
    (MetricCall("calculate_heat_index") /\ fn_ret # None) =>
        /\ fn_args[1].exp = 1
        /\ ~(/\ SubtractiveApplies(TenthsOf(fn_args[1]), fn_args[2])
             /\ AdditiveApplies(TenthsOf(fn_args[1]), fn_args[2]))
        /\ SubtractiveApplies(TenthsOf(fn_args[1]), fn_args[2])
              => 170 - Abs(TenthsOf(fn_args[1]) - 950) >= 0
        /\ IF AverageTimes10000(TenthsOf(fn_args[1]), fn_args[2]) < 800000
           THEN IsCeilingOf(DecimalStr(
                    AverageTimes10000(TenthsOf(fn_args[1]), fn_args[2]), 4))
           ELSE IsCeilingOf(CorrectedRegression(fn_args[1], _as_decimal(fn_args[2]),
                                                TenthsOf(fn_args[1]), fn_args[2]))

\* T = 112 and RH = 12: the regression with the subtractive correction, whose
\* square-root argument is 0
HeatIndexFormulaSelectionWitness ==
    /\ MetricCall("calculate_heat_index")
    /\ TenthsOf(fn_args[1]) = 1120
    /\ fn_args[2] = 12
    /\ fn_ret # None
    /\ AverageTimes10000(1120, 12) >= 800000
    /\ SubtractiveApplies(1120, 12)
    /\ IsCeilingOf(heat_index_regression(fn_args[1], Decimal(12)))

(***************************************************************************)
(* Importer.import_data: the header, then for the days 1..31 of the month  *)
(* one daily summary and the interval records of the day, read from one    *)
(* file handle.  self is kept in result, the handle's position in          *)
(* file_pos, and the positions of the two loops (day, r) in fn_locals.     *)
(***************************************************************************)
\* the two bytes of a signed 16-bit value, low byte first
Int16Bytes(n) == <<(n % 65536) % 256, (n % 65536) \div 256>>

\* a header whose day indexes 0, 1, 2 and 31 have the given record counts,
\* and whose start indexes are not the positions of the records
ImportHeader(counts) ==
    PokeAll(Zeros(VERSION_CODE_AND_COUNT_LENGTH + 32 * DAY_INDEX_LENGTH),
        <<<<20, Int16Bytes(counts[1])>>, <<22, <<9, 0, 0, 0>>>>,
          <<26, Int16Bytes(counts[2])>>, <<28, <<1, 0, 0, 0>>>>,
          <<32, Int16Bytes(counts[3])>>, <<34, <<7, 0, 0, 0>>>>,
          <<206, Int16Bytes(counts[4])>>>>)

\* the r-th interval record of a day: minutes past midnight 5 * r
ImportRecordBytes(r) == Poke(WlkBase, <<4, Int16Bytes(5 * r)>>)

\* the bytes of a day with record count n
RECURSIVE ImportDayBytes(_, _)
ImportDayBytes(n, r) ==
    IF n < 2 THEN <<>>
    ELSE IF r = 0 THEN DailyBase \o ImportDayBytes(n, 1)
    ELSE IF r < n - 1 THEN ImportRecordBytes(r) \o ImportDayBytes(n, r + 1)
    ELSE <<>>

ImportFile(counts) ==
    ImportHeader(counts) \o ImportDayBytes(counts[2], 0)
        \o ImportDayBytes(counts[3], 0) \o ImportDayBytes(counts[4], 0)

ImportCounts == {0, 3} \X {0, 1, 2, 3} \X {0 - 1, 2, 4} \X {0, 2, 3}

\* whole files, and files that lost their last byte
ImportFiles ==
    {ImportFile(c) : c \in ImportCounts}
    \cup {SubSeq(ImportFile(c), 1, Len(ImportFile(c)) - 1) : c \in ImportCounts}

\* the year and month of the file name
ImportMonths == {<<2020, 1>>}

ImportInit ==
    /\ kind = "Importer.import_data"
    /\ stream \in ImportFiles
    /\ file_pos = 0
    /\ result = None
    /\ dec_pc = "import_data"
    /\ d = None /\ timestamp = 0 /\ date = None /\ ts_pc = "idle"
    /\ data_bytes = <<>> /\ crc = 0 /\ crc_pc = "idle"
    /\ fn_args \in ImportMonths /\ fn_ret = None /\ fn_pc = "idle" /\ fn_locals = None

\* a read of n bytes moves the handle by n, or to the end of the file
AfterRead(n) == Min(file_pos + n, Len(stream))

\* an exception leaves import_data
ImportRaised(exception) ==
    /\ fn_ret' = exception
    /\ dec_pc' = "raised"
    /\ UNCHANGED <<result, fn_locals>>

\* self.header = Header.load_from_wlk(file_handle) and the empty collections
ImportOpen ==
    /\ dec_pc = "import_data"
    /\ file_pos' = AfterRead(VERSION_CODE_AND_COUNT_LENGTH + 32 * DAY_INDEX_LENGTH)
    /\ IF IsRaise(Header_load_from_wlk(stream, file_pos))
       THEN ImportRaised(Header_load_from_wlk(stream, file_pos))
       ELSE /\ result' = [t |-> "Importer",
                          header |-> Header_load_from_wlk(stream, file_pos),
                          daily_summaries |-> <<>>,
                          records |-> <<>>,
                          daily_records |-> <<>>]
            /\ fn_locals' = [day |-> 0, r |-> 0]
            /\ dec_pc' = "days"
            /\ UNCHANGED fn_ret
    /\ UNCHANGED <<kind, stream, fn_args, fn_pc, ts_vars, crc_vars>>

\* the record count of the day the outer loop is at
import_record_count == result.header.day_indexes[fn_locals.day + 1].record_count

import_in_range_to_count == fn_locals.day > 0 /\ fn_locals.r < import_record_count

\* the inner loop has another r: range(0, day_index.record_count - 1)
import_in_range == fn_locals.day > 0 /\ fn_locals.r < import_record_count - 1

\* the outer loop moves on: day 0 is skipped, and a day whose range is done
ImportNextDay ==
    /\ dec_pc = "days"
    /\ fn_locals.day < 32
    /\ ~import_in_range
    /\ fn_locals' = [day |-> fn_locals.day + 1, r |-> 0]
    /\ UNCHANGED <<kind, stream, file_pos, result, dec_pc, fn_args, fn_ret, fn_pc,
                   ts_vars, crc_vars>>

\* r == 0: self.daily_summaries[day] = DailySummary.load_from_wlk(...)
ImportDailySummary ==
    /\ dec_pc = "days"
    /\ fn_locals.day < 32
    /\ import_in_range
    /\ fn_locals.r = 0
    /\ file_pos' = AfterRead(DAILY_SUMMARY_LENGTH)
    /\ IF IsRaise(DailySummary_load_from_wlk(stream, file_pos, fn_args[1], fn_args[2],
                                             fn_locals.day))
       THEN ImportRaised(DailySummary_load_from_wlk(stream, file_pos, fn_args[1],
                                                    fn_args[2], fn_locals.day))
       ELSE /\ result' = [result EXCEPT !.daily_summaries =
                             (fn_locals.day :> DailySummary_load_from_wlk(
                                 stream, file_pos, fn_args[1], fn_args[2], fn_locals.day))
                             @@ @]
            /\ fn_locals' = [fn_locals EXCEPT !.r = 1]
            /\ UNCHANGED <<dec_pc, fn_ret>>
    /\ UNCHANGED <<kind, stream, fn_args, fn_pc, ts_vars, crc_vars>>

\* self.daily_records[day].append(record) on a defaultdict(list)
import_append(daily_records, day, record) ==
    IF day \in DOMAIN daily_records
    THEN [daily_records EXCEPT ![day] = Append(@, record)]
    ELSE (day :> <<record>>) @@ daily_records

\* r > 0: an interval record, appended to records and to daily_records[day]
ImportIntervalRecord ==
    /\ dec_pc = "days"
    /\ fn_locals.day < 32
    /\ import_in_range
    /\ fn_locals.r > 0
    /\ file_pos' = AfterRead(RECORD_LENGTH_WLK)
    /\ IF IsRaise(ArchiveIntervalRecord_load_from_wlk(stream, file_pos, fn_args[1],
                                                      fn_args[2], fn_locals.day))
       THEN ImportRaised(ArchiveIntervalRecord_load_from_wlk(stream, file_pos,
                             fn_args[1], fn_args[2], fn_locals.day))
       ELSE /\ result' = [result EXCEPT
                 !.records = Append(@, ArchiveIntervalRecord_load_from_wlk(
                                 stream, file_pos, fn_args[1], fn_args[2], fn_locals.day)),
                 !.daily_records = import_append(@, fn_locals.day,
                             ArchiveIntervalRecord_load_from_wlk(
                                 stream, file_pos, fn_args[1], fn_args[2], fn_locals.day))]
            /\ fn_locals' = [fn_locals EXCEPT !.r = @ + 1]
            /\ UNCHANGED <<dec_pc, fn_ret>>
    /\ UNCHANGED <<kind, stream, fn_args, fn_pc, ts_vars, crc_vars>>

\* return self
ImportReturn ==
    /\ dec_pc = "days"
    /\ fn_locals.day = 32
    /\ fn_ret' = result
    /\ dec_pc' = "imported"
    /\ UNCHANGED <<kind, stream, file_pos, result, fn_args, fn_pc, fn_locals,
                   ts_vars, crc_vars>>

ImportNext ==
    \/ ImportOpen
    \/ ImportNextDay
    \/ ImportDailySummary
    \/ ImportIntervalRecord
    \/ ImportReturn

SpecImport == ImportInit /\ [][ImportNext]_vars

\* the record count of a day as the bytes of the header give it
CountOf(day) ==
    Signed16(stream[VERSION_CODE_AND_COUNT_LENGTH + DAY_INDEX_LENGTH * day + 1],
             stream[VERSION_CODE_AND_COUNT_LENGTH + DAY_INDEX_LENGTH * day + 2])

\* the bytes of a day with record count n: 176 + 88 (n - 2) when n >= 2
DayBytesOf(n) == IF n >= 2 THEN 88 * n ELSE 0

\* where the bytes of a day start: after the header and the days 1 .. day-1
RECURSIVE DayStart(_)
DayStart(day) ==
    IF day <= 1 THEN 212 ELSE DayStart(day - 1) + DayBytesOf(CountOf(day - 1))

\* daily_records[day] of the defaultdict
DailyRecordsOf(self, day) ==
    IF day \in DOMAIN self.daily_records THEN self.daily_records[day] ELSE <<>>

\* daily_records[1] + ... + daily_records[day]
RECURSIVE RecordsThrough(_, _)
RecordsThrough(self, day) ==
    IF day = 0 THEN <<>> ELSE RecordsThrough(self, day - 1) \o DailyRecordsOf(self, day)

\* what was decoded for the day is what its bytes hold, in order
DayDecoded(self, day) ==
    /\ day \in DOMAIN self.daily_summaries <=> CountOf(day) >= 2
    /\ day \in DOMAIN self.daily_summaries =>
          self.daily_summaries[day]
              = DailySummary_load_from_wlk(stream, DayStart(day),
                                           fn_args[1], fn_args[2], day)
    /\ Len(DailyRecordsOf(self, day)) = IF CountOf(day) >= 2 THEN CountOf(day) - 2 ELSE 0
    /\ \A j \in DOMAIN DailyRecordsOf(self, day) :
          DailyRecordsOf(self, day)[j]
              = ArchiveIntervalRecord_load_from_wlk(stream,
                    DayStart(day) + 176 + 88 * (j - 1), fn_args[1], fn_args[2], day)

\* the handle is where sequential reading puts it at day, r
ImportPosition ==
    file_pos = IF fn_locals.day = 0 THEN 212
               ELSE DayStart(fn_locals.day)
                    + (IF fn_locals.r = 0 THEN 0 ELSE 176 + 88 * (fn_locals.r - 1))

(***************************************************************************)
(* C29: Importer.import_data reads the file sequentially after the header, *)
(* visiting the day indexes 1..31 in increasing order and never day index  *)
(* 0 or the start_index values: for a day of record count n it decodes one *)
(* 176-byte DailySummary and then n-2 88-byte interval records when n >= 2 *)
(* (88 n bytes) and reads nothing when n <= 1; afterwards daily_summaries  *)
(* has a key exactly for the days with n >= 2, daily_records[d] has        *)
(* max(0, n-2) records, and records is daily_records[1..31] concatenated.  *)
(***************************************************************************)
ImportReadsSequentially ==
    /\ dec_pc = "days" =>
          /\ ImportPosition
          /\ \A day \in DOMAIN result.daily_summaries :
                day \in 1..fn_locals.day /\ CountOf(day) >= 2
          /\ \A day \in DOMAIN result.daily_records :
                day \in 1..fn_locals.day /\ CountOf(day) >= 3
          /\ \A day \in 1..(fn_locals.day - 1) : DayDecoded(result, day)
    /\ dec_pc = "imported" =>
          /\ file_pos = DayStart(32)
          /\ DOMAIN fn_ret.daily_summaries = {day \in 1..31 : CountOf(day) >= 2}
          /\ \A day \in 1..31 : DayDecoded(fn_ret, day)
          /\ fn_ret.records = RecordsThrough(fn_ret, 31)

\* days 1, 2 and 31 with 3, 4 and 3 records, day index 0 with 3: three
\* summaries and 1 + 2 + 1 interval records, read to the end of the file
ImportReadsSequentiallyWitness ==
    /\ dec_pc = "imported"
    /\ CountOf(0) = 3 /\ CountOf(1) = 3 /\ CountOf(2) = 4 /\ CountOf(31) = 3
    /\ DOMAIN fn_ret.daily_summaries = {1, 2, 31}
    /\ Len(fn_ret.records) = 4
    /\ fn_ret.records[2] = fn_ret.daily_records[2][1]
    /\ fn_ret.records[2] # fn_ret.records[3]
    /\ file_pos = Len(stream)
    /\ file_pos = 212 + 88 * 10

(***************************************************************************)
(* calculate_all_record_values: the derived values of one archive record.  *)
(* Dew point, wet bulb temperature and THSW index use exp, ln and          *)
(* fractional powers; they are given by the values the functions return,   *)
(* in tenths of a degree, for the values the fields of the model's records *)
(* take.                                                                   *)
(***************************************************************************)
dew_point_tenths(tenths, relative_humidity) ==
    CASE tenths = 0 /\ relative_humidity = 50 -> 0 - 144
      [] tenths = 90 /\ relative_humidity = 50 -> 0 - 59
      [] tenths = 300 /\ relative_humidity = 50 -> 136
      [] tenths = 650 /\ relative_humidity = 50 -> 458
      [] tenths = 900 /\ relative_humidity = 50 -> 684
      [] tenths = 720 /\ relative_humidity = 40 -> 462

calculate_dew_point(temperature, relative_humidity) ==
    TENTHS(dew_point_tenths(TenthsOf(temperature), relative_humidity))

\* relative humidity 50, barometric pressure 29.920
wet_bulb_tenths(tenths) ==
    CASE tenths = 0 -> 0 - 13
      [] tenths = 90 -> 71
      [] tenths = 300 -> 259
      [] tenths = 650 -> 551
      [] tenths = 900 -> 755

calculate_wet_bulb_temperature(temperature, relative_humidity, barometric_pressure) ==
    TENTHS(wet_bulb_tenths(TenthsOf(temperature)))

\* relative humidity 50
thsw_index_tenths(tenths, solar_radiation, wind_speed) ==
    CASE tenths = 0 /\ solar_radiation = 500 /\ wind_speed = 0 -> 0 - 27
      [] tenths = 0 /\ solar_radiation = 500 /\ wind_speed = 5 -> 0 - 63
      [] tenths = 0 /\ solar_radiation = 500 /\ wind_speed = 10 -> 0 - 97
      [] tenths = 0 /\ solar_radiation = 800 /\ wind_speed = 0 -> 0
      [] tenths = 0 /\ solar_radiation = 800 /\ wind_speed = 5 -> 0 - 41
      [] tenths = 0 /\ solar_radiation = 800 /\ wind_speed = 10 -> 0 - 78
      [] tenths = 90 /\ solar_radiation = 500 /\ wind_speed = 0 -> 66
      [] tenths = 90 /\ solar_radiation = 500 /\ wind_speed = 5 -> 29
      [] tenths = 90 /\ solar_radiation = 500 /\ wind_speed = 10 -> 0 - 5
      [] tenths = 90 /\ solar_radiation = 800 /\ wind_speed = 0 -> 93
      [] tenths = 90 /\ solar_radiation = 800 /\ wind_speed = 5 -> 51
      [] tenths = 90 /\ solar_radiation = 800 /\ wind_speed = 10 -> 14
      [] tenths = 300 /\ solar_radiation = 500 /\ wind_speed = 0 -> 286
      [] tenths = 300 /\ solar_radiation = 500 /\ wind_speed = 5 -> 250
      [] tenths = 300 /\ solar_radiation = 500 /\ wind_speed = 10 -> 216
      [] tenths = 300 /\ solar_radiation = 800 /\ wind_speed = 0 -> 313
      [] tenths = 300 /\ solar_radiation = 800 /\ wind_speed = 5 -> 272
      [] tenths = 300 /\ solar_radiation = 800 /\ wind_speed = 10 -> 235
      [] tenths = 650 /\ solar_radiation = 500 /\ wind_speed = 0 -> 684
      [] tenths = 650 /\ solar_radiation = 500 /\ wind_speed = 5 -> 648
      [] tenths = 650 /\ solar_radiation = 500 /\ wind_speed = 10 -> 614
      [] tenths = 650 /\ solar_radiation = 800 /\ wind_speed = 0 -> 711
      [] tenths = 650 /\ solar_radiation = 800 /\ wind_speed = 5 -> 670
      [] tenths = 650 /\ solar_radiation = 800 /\ wind_speed = 10 -> 633
      [] tenths = 900 /\ solar_radiation = 500 /\ wind_speed = 0 -> 1019
      [] tenths = 900 /\ solar_radiation = 500 /\ wind_speed = 5 -> 982
      [] tenths = 900 /\ solar_radiation = 500 /\ wind_speed = 10 -> 949
      [] tenths = 900 /\ solar_radiation = 800 /\ wind_speed = 0 -> 1046
      [] tenths = 900 /\ solar_radiation = 800 /\ wind_speed = 5 -> 1004
      [] tenths = 900 /\ solar_radiation = 800 /\ wind_speed = 10 -> 967

calculate_thsw_index(temperature, relative_humidity, solar_radiation, wind_speed) ==
    TENTHS(thsw_index_tenths(TenthsOf(temperature), solar_radiation, wind_speed))

\* _as_decimal of a record value: a Decimal is kept, None becomes Decimal('0')
_as_decimal_value(value) ==
    IF value.t = "Decimal" THEN value
    ELSE IF value.t = "None" THEN DecimalStr(0, 0)
    ELSE Decimal(value.v)

\* the whole number held by an int or by a Decimal without decimal places
IntOf(x) ==
    IF x.t = "int" THEN x.v
    ELSE (IF x.sign = 1 THEN 0 - 1 ELSE 1) * LimbValue(x.coef)

\* the items a run of _append_to_list(a, v) calls leaves in a: `if v: l.append(v)`
_append_to_list(items) == SelectSeq(items, Truthy)

\* `if a: arguments[key] = a`, as the dict of that one entry or the empty one
NoArguments == [k \in {} |-> None]
argument_if(key, a) == IF Truthy(a) THEN key :> a ELSE NoArguments

smaller_of(m, x) == IF DecLt(x, m) THEN x ELSE m
larger_of(m, x) == IF DecLt(m, x) THEN x ELSE m

\* min(a) and max(a) of the first i items of a list of Decimals
RECURSIVE list_min(_, _)
list_min(a, i) == IF i = 1 THEN a[1] ELSE smaller_of(list_min(a, i - 1), a[i])

RECURSIVE list_max(_, _)
list_max(a, i) == IF i = 1 THEN a[1] ELSE larger_of(list_max(a, i - 1), a[i])

\* the un-suffixed value is a[0]
first_of_list(a) == a[1]

\* `if a:` the three entries a[0], min(a), max(a)
arguments_of_list(key, key_low, key_high, a) ==
    IF Len(a) = 0 THEN NoArguments
    ELSE (key :> first_of_list(a)) @@ (key_low :> list_min(a, Len(a)))
         @@ (key_high :> list_max(a, Len(a)))

\* lines 1366-1369
wind_run_arguments(record, wind_speed) ==
    IF Truthy(wind_speed)
    THEN "wind_run_distance_total"
            :> DecTimes(DecDivInt(wind_speed, 60), Decimal(record.minutes_covered.v))
    ELSE NoArguments

\* the outside temperatures in the order current, low, high (lines 1388-1396)
\* and in the order current, high, low (lines 1416-1505)
temperatures_low_high(record) ==
    <<record.temperature_outside, record.temperature_outside_low,
      record.temperature_outside_high>>
temperatures_high_low(record) ==
    <<record.temperature_outside, record.temperature_outside_high,
      record.temperature_outside_low>>

\* the wet bulb temperature for one of the temperatures, None when it is skipped
wet_bulb_for(temperature, record) ==
    IF Truthy(temperature)
    THEN calculate_wet_bulb_temperature(temperature, record.humidity_outside.v,
                                        record.barometric_pressure)
    ELSE None

\* lines 1371-1383
wet_bulb_arguments(record) ==
    IF Truthy(record.humidity_outside) /\ Truthy(record.barometric_pressure)
    THEN argument_if("temperature_wet_bulb",
                     wet_bulb_for(record.temperature_outside, record))
         @@ argument_if("temperature_wet_bulb_low",
                        wet_bulb_for(record.temperature_outside_low, record))
         @@ argument_if("temperature_wet_bulb_high",
                        wet_bulb_for(record.temperature_outside_high, record))
    ELSE NoArguments

dew_point_for(temperature, record) ==
    IF Truthy(temperature)
    THEN calculate_dew_point(temperature, record.humidity_outside.v)
    ELSE None

heat_index_for(temperature, record) ==
    IF Truthy(temperature)
    THEN calculate_heat_index(temperature, record.humidity_outside.v)
    ELSE None

\* list a of lines 1386-1396: current, low, high
dew_point_list(record) ==
    _append_to_list([i \in 1..3 |->
        dew_point_for(temperatures_low_high(record)[i], record)])

\* list b of lines 1387-1396
heat_index_list(record) ==
    _append_to_list([i \in 1..3 |->
        heat_index_for(temperatures_low_high(record)[i], record)])

\* lines 1385-1404
outside_arguments(record) ==
    IF Truthy(record.humidity_outside)
    THEN arguments_of_list("dew_point_outside", "dew_point_outside_low",
                           "dew_point_outside_high", dew_point_list(record))
         @@ arguments_of_list("heat_index_outside", "heat_index_outside_low",
                              "heat_index_outside_high", heat_index_list(record))
    ELSE NoArguments

\* lines 1406-1412
inside_arguments(record) ==
    IF Truthy(record.humidity_inside) /\ Truthy(record.temperature_inside)
    THEN argument_if("dew_point_inside",
                     calculate_dew_point(record.temperature_inside,
                                         record.humidity_inside.v))
         @@ argument_if("heat_index_inside",
                        heat_index_for(record.temperature_inside,
                                       [humidity_outside |-> record.humidity_inside]))
    ELSE NoArguments

wind_chill_for(speed, temperature) ==
    IF Truthy(speed) /\ Truthy(temperature)
    THEN calculate_wind_chill(temperature, IntOf(speed))
    ELSE None

\* list a of lines 1416-1427: the speed with current, high, low, then the
\* high speed with current, high, low
wind_chill_list(record, wind_speed) ==
    _append_to_list([i \in 1..6 |->
        wind_chill_for(IF i <= 3 THEN wind_speed ELSE record.wind_speed_high,
                       temperatures_high_low(record)[((i - 1) % 3) + 1])])

any_temperature(record) ==
    \/ Truthy(record.temperature_outside)
    \/ Truthy(record.temperature_outside_high)
    \/ Truthy(record.temperature_outside_low)

\* lines 1414-1431
wind_chill_arguments(record, wind_speed) ==
    IF (Truthy(wind_speed) \/ Truthy(record.wind_speed_high)) /\ any_temperature(record)
    THEN arguments_of_list("wind_chill", "wind_chill_low", "wind_chill_high",
                           wind_chill_list(record, wind_speed))
    ELSE NoArguments

\* `x if x else 0`, as the whole number
speed_or_zero(speed) == IF Truthy(speed) THEN IntOf(speed) ELSE 0

thw_index_for(temperature, record, speed) ==
    IF Truthy(temperature)
    THEN calculate_thw_index(temperature, record.humidity_outside.v, speed)
    ELSE None

\* list a of lines 1437-1446: current, high, low, each with ws and then wsh
thw_index_list(record, ws, wsh) ==
    _append_to_list([i \in 1..6 |->
        thw_index_for(temperatures_high_low(record)[(i + 1) \div 2], record,
                      IF i % 2 = 1 THEN ws ELSE wsh)])

thsw_index_for(temperature, solar, record, speed) ==
    IF Truthy(temperature) /\ Truthy(solar)
    THEN calculate_thsw_index(temperature, record.humidity_outside.v, solar.v, speed)
    ELSE None

\* list a of lines 1453-1501: solar_radiation with current, high, low, then
\* solar_radiation_high with current, high, low, each with ws and then wsh
thsw_index_list(record, ws, wsh) ==
    _append_to_list([i \in 1..12 |->
        thsw_index_for(temperatures_high_low(record)[(((i - 1) % 6) \div 2) + 1],
                       IF i <= 6 THEN record.solar_radiation
                                 ELSE record.solar_radiation_high,
                       record, IF i % 2 = 1 THEN ws ELSE wsh)])

\* lines 1452-1505
thsw_arguments(record, ws, wsh) ==
    IF Truthy(record.solar_radiation) \/ Truthy(record.solar_radiation_high)
    THEN arguments_of_list("thsw_index", "thsw_index_low", "thsw_index_high",
                           thsw_index_list(record, ws, wsh))
    ELSE NoArguments

\* lines 1433-1505
thw_arguments(record, ws, wsh) ==
    IF Truthy(record.humidity_outside) /\ any_temperature(record)
    THEN arguments_of_list("thw_index", "thw_index_low", "thw_index_high",
                           thw_index_list(record, ws, wsh))
         @@ thsw_arguments(record, ws, wsh)
    ELSE NoArguments

\* the body after wind_speed = _as_decimal(record.get('wind_speed'))
all_record_values(record, wind_speed) ==
    wind_run_arguments(record, wind_speed)
    @@ wet_bulb_arguments(record)
    @@ outside_arguments(record)
    @@ inside_arguments(record)
    @@ wind_chill_arguments(record, wind_speed)
    @@ thw_arguments(record, speed_or_zero(wind_speed),
                     speed_or_zero(record.wind_speed_high))

calculate_all_record_values(record) ==
    all_record_values(record, _as_decimal_value(record.wind_speed))

(***************************************************************************)
(* The records calculate_all_record_values is called with: every field is  *)
(* absent or holds one of a few values, zero among them.                   *)
(***************************************************************************)
Absent(values) == {None} \cup values

RecordTemperatures == {TENTHS(0), TENTHS(90), TENTHS(300), TENTHS(650), TENTHS(900)}
RecordInside == {<<None, None>>, <<TENTHS(720), PyInt(40)>>}
RecordSolar ==
    {<<None, None>>, <<PyInt(0), None>>, <<PyInt(500), None>>, <<PyInt(500), PyInt(800)>>}

ArchiveRecords ==
    {[wind_speed |-> ws, wind_speed_high |-> wsh,
      humidity_outside |-> rh, humidity_inside |-> inside[2],
      barometric_pressure |-> p,
      temperature_outside |-> t, temperature_outside_low |-> tl,
      temperature_outside_high |-> th, temperature_inside |-> inside[1],
      solar_radiation |-> solar[1], solar_radiation_high |-> solar[2],
      minutes_covered |-> PyInt(5)] :
        ws \in Absent({Decimal(0), Decimal(5)}), wsh \in Absent({Decimal(10)}),
        rh \in Absent({PyInt(0), PyInt(50)}), inside \in RecordInside,
        p \in Absent({THOUSANDTHS(29920)}),
        t \in Absent(RecordTemperatures), tl \in Absent({TENTHS(300)}),
        th \in Absent({TENTHS(900)}), solar \in RecordSolar}

RecordInit ==
    /\ fn_args \in {<<record>> : record \in ArchiveRecords}
    /\ fn_ret = None
    /\ fn_pc = "call"
    /\ fn_locals = None
    /\ d = None /\ timestamp = 0 /\ date = None /\ ts_pc = "idle"
    /\ data_bytes = <<>> /\ crc = 0 /\ crc_pc = "idle"
    /\ kind = "idle" /\ stream = <<>> /\ file_pos = 0 /\ result = None /\ dec_pc = "idle"

CalculateAllRecordValues ==
    /\ fn_pc = "call"
    /\ fn_ret' = calculate_all_record_values(fn_args[1])
    /\ fn_pc' = "calculate_all_record_values"
    /\ UNCHANGED <<fn_args, fn_locals, ts_vars, crc_vars, dec_vars>>

RecordNext == CalculateAllRecordValues

SpecRecord == RecordInit /\ [][RecordNext]_vars

\* the call of calculate_all_record_values has returned
RecordReturned == fn_pc = "calculate_all_record_values"

\* the derived values and the primary inputs each of them is computed from
DerivedValues ==
    {"wind_run_distance_total", "temperature_wet_bulb", "temperature_wet_bulb_low",
     "temperature_wet_bulb_high", "dew_point_outside", "heat_index_outside",
     "dew_point_inside", "heat_index_inside", "wind_chill", "thw_index", "thsw_index"}

RequiredInputs(key) ==
    CASE key = "wind_run_distance_total" -> {"wind_speed"}
      [] key = "temperature_wet_bulb" ->
            {"temperature_outside", "humidity_outside", "barometric_pressure"}
      [] key = "temperature_wet_bulb_low" ->
            {"temperature_outside_low", "humidity_outside", "barometric_pressure"}
      [] key = "temperature_wet_bulb_high" ->
            {"temperature_outside_high", "humidity_outside", "barometric_pressure"}
      [] key \in {"dew_point_outside", "heat_index_outside", "thw_index"} ->
            {"temperature_outside", "humidity_outside"}
      [] key \in {"dew_point_inside", "heat_index_inside"} ->
            {"temperature_inside", "humidity_inside"}
      [] key = "wind_chill" -> {"temperature_outside", "wind_speed"}
      [] key = "thsw_index" ->
            {"temperature_outside", "humidity_outside", "solar_radiation"}

InputsPresent(record, key) == \A f \in RequiredInputs(key) : record[f] # None

\* the inputs are where the formula of the value is defined: heat index and
\* THW index from 70 degrees, wind chill up to 40 degrees, dew point for a
\* humidity above 0
InFormulaDomain(record, key) ==
    CASE key \in {"heat_index_outside", "thw_index"} ->
            DecLe(Decimal(70), record.temperature_outside)
      [] key = "heat_index_inside" -> DecLe(Decimal(70), record.temperature_inside)
      [] key = "wind_chill" -> DecLe(record.temperature_outside, Decimal(40))
      [] key = "dew_point_outside" -> record.humidity_outside.v > 0
      [] key = "dew_point_inside" -> record.humidity_inside.v > 0
      [] OTHER -> TRUE

(***************************************************************************)
(* C24: calculate_all_record_values omits each derived value whenever one  *)
(* of that value's required primary inputs is absent, and does so          *)
(* independently per value: a derived value whose own inputs are all       *)
(* present and inside its formula's domain is reported whatever other      *)
(* inputs (barometric pressure, solar radiation, wind speed) are absent.   *)
(***************************************************************************)
DerivedValuesOmittedIndependently ==
    RecordReturned =>
        \A key \in DerivedValues :
            /\ ~InputsPresent(fn_args[1], key) => key \notin DOMAIN fn_ret
            /\ (InputsPresent(fn_args[1], key) /\ InFormulaDomain(fn_args[1], key))
                  => key \in DOMAIN fn_ret

\* C24, the part that holds: a value the call reports has its humidity,
\* pressure or solar radiation inputs and some temperature or wind speed
DerivedValuesNeedSomeInput ==
    RecordReturned =>
        /\ "wind_run_distance_total" \in DOMAIN fn_ret => fn_args[1].wind_speed # None
        /\ "temperature_wet_bulb" \in DOMAIN fn_ret =>
              /\ fn_args[1].barometric_pressure # None
              /\ fn_args[1].humidity_outside # None
              /\ fn_args[1].temperature_outside # None
        /\ \A key \in {"dew_point_outside", "heat_index_outside", "thw_index",
                       "thsw_index"} :
              key \in DOMAIN fn_ret =>
                  /\ fn_args[1].humidity_outside # None
                  /\ any_temperature(fn_args[1])
        /\ "thsw_index" \in DOMAIN fn_ret =>
              \/ fn_args[1].solar_radiation # None
              \/ fn_args[1].solar_radiation_high # None

\* no wind speed, a high wind speed of 10 and 30.0 degrees: a wind chill is
\* reported
WindChillWithoutWindSpeed ==
    /\ RecordReturned
    /\ fn_args[1].wind_speed = None
    /\ fn_args[1].temperature_outside = TENTHS(300)
    /\ "wind_chill" \in DOMAIN fn_ret

(***************************************************************************)
(* C25: a valid zero is distinct from 'no data': a primary field that is   *)
(* present with the value zero (outside temperature 0.0, humidity 0, wind  *)
(* speed 0, solar radiation 0) is treated as present, and a derived value  *)
(* that is exactly 0 (a wind chill of 0.0) is reported, not omitted.       *)
(***************************************************************************)
ZeroIsNotAbsent ==
    RecordReturned =>
        /\ fn_args[1].wind_speed # None => "wind_run_distance_total" \in DOMAIN fn_ret
        /\ (InputsPresent(fn_args[1], "wind_chill")
            /\ InFormulaDomain(fn_args[1], "wind_chill")) =>
              /\ "wind_chill" \in DOMAIN fn_ret
              /\ DecEq(fn_ret["wind_chill"],
                       calculate_wind_chill(fn_args[1].temperature_outside,
                                            IntOf(fn_args[1].wind_speed)))
        /\ (InputsPresent(fn_args[1], "heat_index_outside")
            /\ InFormulaDomain(fn_args[1], "heat_index_outside")) =>
              "heat_index_outside" \in DOMAIN fn_ret
        /\ InputsPresent(fn_args[1], "thsw_index") => "thsw_index" \in DOMAIN fn_ret

\* the wind chill of 9.0 degrees at wind speed 5 is 0.0, and it is not reported
ZeroWindChillOmitted ==
    /\ RecordReturned
    /\ fn_args[1].temperature_outside = TENTHS(90)
    /\ fn_args[1].wind_speed = Decimal(5)
    /\ DecEq(calculate_wind_chill(TENTHS(90), 5), DecimalStr(0, 0))
    /\ "wind_chill" \notin DOMAIN fn_ret

\* the wind speed that the THW and THSW formulas are given for `wind_speed`
CurrentWind(record) ==
    IF record.wind_speed # None THEN IntOf(record.wind_speed) ELSE 0

\* the value reported under key is the expected one
ReportedIs(key, expected) == expected # None /\ DecEq(fn_ret[key], expected)

\* the value reported under key is between those under key_low and key_high
ReportedBetween(key, key_low, key_high) ==
    /\ DecLe(fn_ret[key_low], fn_ret[key])
    /\ DecLe(fn_ret[key], fn_ret[key_high])

\* the THSW index of the current temperature and wind speed with one of the
\* solar radiations of the record
ReportedThsw(record) ==
    \E solar \in {record.solar_radiation, record.solar_radiation_high} :
        /\ Truthy(solar)
        /\ DecEq(fn_ret["thsw_index"],
                 calculate_thsw_index(record.temperature_outside,
                                      record.humidity_outside.v, solar.v,
                                      CurrentWind(record)))

(***************************************************************************)
(* C30: in the output of calculate_all_record_values each un-suffixed      *)
(* derived value (dew_point_outside, heat_index_outside, wind_chill,       *)
(* thw_index, thsw_index), whenever it is present, is the metric computed  *)
(* from temperature_outside and the current wind speed, never one computed *)
(* from temperature_outside_high, temperature_outside_low or               *)
(* wind_speed_high, and it lies between its _low and _high values.         *)
(***************************************************************************)
UnsuffixedValuesAreCurrent ==
    RecordReturned =>
        /\ "dew_point_outside" \in DOMAIN fn_ret =>
              /\ fn_args[1].temperature_outside # None
              /\ ReportedIs("dew_point_outside",
                            calculate_dew_point(fn_args[1].temperature_outside,
                                                fn_args[1].humidity_outside.v))
        /\ "heat_index_outside" \in DOMAIN fn_ret =>
              /\ fn_args[1].temperature_outside # None
              /\ ReportedIs("heat_index_outside",
                            calculate_heat_index(fn_args[1].temperature_outside,
                                                 fn_args[1].humidity_outside.v))
        /\ "wind_chill" \in DOMAIN fn_ret =>
              /\ fn_args[1].temperature_outside # None
              /\ fn_args[1].wind_speed # None
              /\ ReportedIs("wind_chill",
                            calculate_wind_chill(fn_args[1].temperature_outside,
                                                 IntOf(fn_args[1].wind_speed)))
        /\ "thw_index" \in DOMAIN fn_ret =>
              /\ fn_args[1].temperature_outside # None
              /\ ReportedIs("thw_index",
                            calculate_thw_index(fn_args[1].temperature_outside,
                                                fn_args[1].humidity_outside.v,
                                                CurrentWind(fn_args[1])))
        /\ "thsw_index" \in DOMAIN fn_ret =>
              /\ fn_args[1].temperature_outside # None
              /\ ReportedThsw(fn_args[1])

\* C30, the part that holds: every un-suffixed value lies between its _low
\* and _high values
UnsuffixedValuesBetweenLowAndHigh ==
    RecordReturned =>
        /\ "dew_point_outside" \in DOMAIN fn_ret =>
              ReportedBetween("dew_point_outside", "dew_point_outside_low",
                              "dew_point_outside_high")
        /\ "heat_index_outside" \in DOMAIN fn_ret =>
              ReportedBetween("heat_index_outside", "heat_index_outside_low",
                              "heat_index_outside_high")
        /\ "wind_chill" \in DOMAIN fn_ret =>
              ReportedBetween("wind_chill", "wind_chill_low", "wind_chill_high")
        /\ "thw_index" \in DOMAIN fn_ret =>
              ReportedBetween("thw_index", "thw_index_low", "thw_index_high")
        /\ "thsw_index" \in DOMAIN fn_ret =>
              ReportedBetween("thsw_index", "thsw_index_low", "thsw_index_high")

\* 65.0 degrees with a high of 90.0 at humidity 50: the heat index reported is
\* that of the high temperature
HeatIndexOfHighTemperature ==
    /\ RecordReturned
    /\ fn_args[1].temperature_outside = TENTHS(650)
    /\ fn_args[1].temperature_outside_high = TENTHS(900)
    /\ fn_args[1].humidity_outside = PyInt(50)
    /\ "heat_index_outside" \in DOMAIN fn_ret
    /\ DecEq(fn_ret["heat_index_outside"], calculate_heat_index(TENTHS(900), 50))

====
